---- MODULE Spec2Model ----
(***************************************************************************)
(* Multi-tenant identity, invitation and session layer of ktem:            *)
(*   services/tenant_auth.py  TenantAuthService, TenantAuthMiddleware      *)
(*   db/tenant_models.py      Tenant, TenantUser, TenantInvitation         *)
(*   pages/tenant.py          TenantPage (shared current_user, settings)   *)
(*                                                                         *)
(* Time is counted in hours.  Text is a sequence of one-character strings, *)
(* so that str.lower() and str.strip() are computed, not assumed.          *)
(***************************************************************************)
EXTENDS Integers, Sequences, FiniteSets, TLC

VARIABLES
    tenants,       \* table tenant: sequence of rows, id = index
    users,         \* table tenantuser: sequence of rows, id = index
    invitations,   \* table tenantinvitation: sequence of rows, id = token = index
    sessions,      \* directory .kotaemon_sessions: session id -> file content
    issued,        \* history: per session id handed out by uuid4, who got it and when
    now,           \* wall clock, in hours
    current_user,  \* TenantPage.current_user (one page object for all visitors)
    acc,           \* per-request local state of a call in progress
    legacy,        \* tables user, conversation, settings of the single-tenant schema
    conversations, \* table tenantconversation
    settings,      \* table tenantsettings
    config,        \* DEFAULT_TENANT_CONFIG, the one TenantSystemConfig object
    ret            \* the last call: operation, arguments, result

vars == <<tenants, users, invitations, sessions, issued, now, current_user, acc,
          legacy, conversations, settings, config, ret>>

----------------------------------------------------------------------------
(* Bounds of the model *)

MaxTenants == 2
MaxUsers == 2
MaxSessions == 1
MaxWriters == 2
MaxClock == 36
ClockStep == 12
MaxInvitations == 1
MaxInviteClock == 260
InviteClockStep == 200
MaxLegacyUsers == 2
MaxLegacyRows == 1

(* Program constants *)

SessionTimeoutHours == 24
InvitationExpiryDays == 7

----------------------------------------------------------------------------
(* Text *)

LowerChar(c) ==
    CASE c = "B" -> "b"
      [] c = "A" -> "a"
      [] c = "X" -> "x"
      [] OTHER -> c

\* str.lower()
Lower(s) == [i \in 1..Len(s) |-> LowerChar(s[i])]

RECURSIVE LStrip(_)
LStrip(s) == IF s # <<>> /\ Head(s) = " " THEN LStrip(Tail(s)) ELSE s

RECURSIVE RStrip(_)
RStrip(s) ==
    IF s # <<>> /\ s[Len(s)] = " " THEN RStrip(SubSeq(s, 1, Len(s) - 1)) ELSE s

\* str.strip()
Strip(s) == RStrip(LStrip(s))

\* hashlib.sha256(password.encode()).hexdigest(): a digest, never the password
hash_password(password) == <<"sha256", password>>

verify_password(password, hashed) == hash_password(password) = hashed

sBob == <<"b", "o", "b">>
sBOB == <<"B", "o", "b">>
sAmy == <<"a", "m", "y">>
sBobPadded == <<" ", "b", "o", "b">>
eBob == <<"b", "@", "x">>
eBOB == <<"B", "@", "x">>
eAmy == <<"a", "@", "x">>

----------------------------------------------------------------------------
(* Enumerations (db/tenant_models.py) *)

UserRole == {"super_admin", "admin", "user"}
TenantStatus == {"active", "suspended", "inactive"}

NullDomain == "NULL"     \* Python None / SQL NULL in Tenant.domain
NullTime == -1           \* Python None / SQL NULL in a datetime column

NoUser == [kind |-> "none"]

\* AuthUser(id=..., ..., is_active=...), session_id defaulting to None (0)
AuthUser(uid) ==
    [kind |-> "user",
     id |-> uid,
     username |-> users[uid].username,
     email |-> users[uid].email,
     tenant_id |-> users[uid].tenant_id,
     tenant_name |-> tenants[users[uid].tenant_id].name,
     role |-> users[uid].role,
     is_active |-> users[uid].is_active,
     session_id |-> 0]

is_admin(a) == a.role \in {"admin", "super_admin"}

is_super_admin(a) == a.role = "super_admin"

require_auth(a) == a.kind # "none" /\ a.is_active

\* require_admin without the call of require_auth
RequireAdminRoleOnly(a) == a.kind # "none" /\ is_admin(a)

require_admin(a) == require_auth(a) /\ is_admin(a)

----------------------------------------------------------------------------
(* Rows and the storage engine's constraints *)

\* TenantUser.id: default_factory=lambda: uuid.uuid4().hex; the row's index
\* stands for a generated id
GeneratedId == <<"uuid4">>

\* TenantUser(username=..., username_lower=username.lower(), ...)
NewUser(username, email, password, tenant_id, role) ==
    [id |-> GeneratedId,
     username |-> username,
     username_lower |-> Lower(username),
     email |-> email,
     password |-> hash_password(password),
     tenant_id |-> tenant_id,
     role |-> role,
     is_active |-> TRUE,
     last_login |-> NullTime,
     admin |-> (role = "admin"),
     via |-> 0]     \* history: the invitation whose acceptance created the row

\* the constraint on the e-mail address left out
UserConstraintUsernameOnly(rows, row) ==
    \E i \in 1..Len(rows) :
        rows[i].tenant_id = row.tenant_id /\ rows[i].username = row.username

\* UniqueConstraint('username', 'tenant_id'), UniqueConstraint('email', 'tenant_id')
UserConstraintViolated(rows, row) ==
    \E i \in 1..Len(rows) :
        /\ rows[i].tenant_id = row.tenant_id
        /\ (rows[i].username = row.username \/ rows[i].email = row.email)

\* Tenant.domain declared without unique=True
DomainConstraintOff(rows, domain, except) == FALSE

\* Tenant.domain: unique=True (NULLs do not collide)
DomainConstraintViolated(rows, domain, except) ==
    /\ domain # NullDomain
    /\ \E i \in 1..Len(rows) : i # except /\ rows[i].domain = domain

Raised(error) == [kind |-> "raised", error |-> error]

----------------------------------------------------------------------------
(* Session store: one JSON file per session id *)

\* json.dump(session_data, f, indent=2)
SessionRecord(sid, a, t) ==
    [kind |-> "record",
     session_id |-> sid,
     user_id |-> a.id,
     username |-> a.username,
     role |-> a.role,
     tenant_id |-> a.tenant_id,
     tenant_name |-> a.tenant_name,
     created_at |-> t,
     expires_at |-> t + SessionTimeoutHours]

\* What json.load(f), session_data['expires_at'] and fromisoformat do with a file
ReadOutcome(file) ==
    CASE file.kind = "record" -> "ok"
      [] file.kind = "unparseable" -> "JSONDecodeError"
      [] file.kind = "no_expires" -> "KeyError"
      [] file.kind = "bad_expires" -> "ValueError"
      [] file.kind = "non_object" -> "TypeError"

\* except (json.JSONDecodeError, KeyError, ValueError)
GetSessionCaught == {"JSONDecodeError", "KeyError", "ValueError"}

\* except (json.JSONDecodeError, KeyError, ValueError, OSError)
CleanupCaught == {"JSONDecodeError", "KeyError", "ValueError", "OSError"}

\* the comparison turned around
IsExpiredReversed(file, t) == t < file.expires_at

\* current_time > expires_at
IsExpired(file, t) == t > file.expires_at

Without(files, D) == [i \in (DOMAIN files) \ D |-> files[i]]

WithFile(files, sid, file) ==
    [i \in (DOMAIN files) \cup {sid} |-> IF i = sid THEN file ELSE files[i]]

\* a scan that unlinks unreadable files only
CleanupKeepsExpired(files, t) ==
    {i \in DOMAIN files : ReadOutcome(files[i]) \in CleanupCaught}

\* the files one scan of _cleanup_expired_sessions unlinks
CleanupDeletes(files, t) ==
    {i \in DOMAIN files :
        \/ ReadOutcome(files[i]) \in CleanupCaught
        \/ ReadOutcome(files[i]) = "ok" /\ IsExpired(files[i], t)}

\* the files whose read raises past the scan's except clause
CleanupRaises(files) ==
    {i \in DOMAIN files : ReadOutcome(files[i]) \notin CleanupCaught \cup {"ok"}}

\* create_session(auth_user): the store and the result it can leave.  The scan
\* visits the directory in no particular order, so when one file raises, any
\* part of the deletable files may already be gone.
CreateSessionOutcomes(files, a, sid, t) ==
    IF CleanupRaises(files) = {}
    THEN {[files |-> WithFile(Without(files, CleanupDeletes(files, t)), sid,
                              SessionRecord(sid, a, t)),
           result |-> [kind |-> "session", session_id |-> sid]]}
    ELSE {[files |-> Without(files, D), result |-> Raised("TypeError")] :
             D \in SUBSET CleanupDeletes(files, t)}

----------------------------------------------------------------------------
(* Inputs *)

People ==
    {[username |-> sBob, email |-> eBob, password |-> "pw123", role |-> "admin"],
     [username |-> sBob, email |-> eBOB, password |-> "pw456", role |-> "user"],
     [username |-> sBOB, email |-> eAmy, password |-> "pw456", role |-> "super_admin"]}

TenantInputs ==
    {[name |-> "Acme", domain |-> "acme.com"],
     [name |-> "Beta", domain |-> NullDomain]}

\* tenant_domain: None, "" (the login form's empty box) or a domain
Login(identity, password, tenant_domain) ==
    [identity |-> identity, password |-> password, tenant_domain |-> tenant_domain]

\* Login attempts: bob and Bob with either password, the other spellings and
\* the emails with the password that goes with them, and bob with a domain
LoginInputs ==
    {Login(sBob, "pw123", NullDomain), Login(sBob, "pw456", NullDomain),
     Login(sBOB, "pw123", NullDomain), Login(sBOB, "pw456", NullDomain),
     Login(sBobPadded, "pw123", NullDomain),
     Login(eBob, "pw123", NullDomain), Login(eBOB, "pw456", NullDomain),
     Login(sAmy, "pw123", NullDomain),
     Login(sBob, "pw123", ""), Login(sBob, "pw123", "acme.com"),
     Login(sBob, "pw123", "beta.com"), Login(sBob, "pw456", "acme.com")}

Truthy(text) == text # NullDomain /\ text # ""

UserIds == 1..Len(users)
TenantIds == 1..Len(tenants)
EmptySid == 0

----------------------------------------------------------------------------
(* Initial state: empty tables, empty session directory, nobody on the page *)

IdleAcc == [pc |-> "idle"]

\* DEFAULT_TENANT_CONFIG = TenantSystemConfig(): the fields validate reads
DEFAULT_TENANT_CONFIG ==
    [password_min_length |-> 8, invitation_expiry_days |-> 7,
     session_timeout_hours |-> 24]

\* the single-tenant tables of an installation that never had data
EmptyLegacy == [users |-> <<>>, conversations |-> <<>>, settings |-> <<>>]

Init ==
    /\ tenants = <<>>
    /\ users = <<>>
    /\ invitations = <<>>
    /\ sessions = <<>>
    /\ issued = <<>>
    /\ now = 0
    /\ current_user = NoUser
    /\ acc = [p \in {1, 2} |-> IdleAcc]
    /\ legacy = EmptyLegacy
    /\ conversations = <<>>
    /\ settings = <<>>
    /\ ret = [op |-> "init"]
    /\ config = DEFAULT_TENANT_CONFIG

----------------------------------------------------------------------------
(* TenantAuthService: tenants and users *)

\* admin_username: str = None, when the caller leaves it out
NoneText == <<"None">>

\* create_tenant with a commit where the code has session.flush()
CreateTenantFlushCommits(name, domain, person) ==
    /\ Len(tenants) < MaxTenants
    /\ Len(users) < MaxUsers
    /\ LET tid == Len(tenants) + 1
           admin == NewUser(person.username, person.email, person.password,
                            tid, "admin")
       IN IF DomainConstraintViolated(tenants, domain, 0)
          THEN /\ ret' = [op |-> "create_tenant", result |-> Raised("IntegrityError")]
               /\ UNCHANGED <<tenants, users>>
          ELSE /\ tenants' = Append(tenants,
                     [name |-> name, domain |-> domain, status |-> "active"])
               /\ IF person.username = NoneText
                  THEN /\ ret' = [op |-> "create_tenant",
                                  result |-> Raised("AttributeError")]
                       /\ UNCHANGED users
                  ELSE /\ users' = Append(users, [admin EXCEPT !.admin = TRUE])
                       /\ ret' = [op |-> "create_tenant", result |-> [kind |-> "ok"]]
    /\ UNCHANGED <<invitations, sessions, issued, now, current_user, acc,
                   legacy, conversations, settings>>
    /\ UNCHANGED config

\* create_tenant(name, domain, admin_username, admin_email, admin_password):
\* one database session; the tenant is flushed, the admin is built
\* (admin_username.lower() on None raises AttributeError), and one commit
\* stores both
CreateTenant(name, domain, person) ==
    /\ Len(tenants) < MaxTenants
    /\ Len(users) < MaxUsers
    /\ LET tid == Len(tenants) + 1
           admin == NewUser(person.username, person.email, person.password,
                            tid, "admin")
       IN IF DomainConstraintViolated(tenants, domain, 0)
          THEN /\ ret' = [op |-> "create_tenant", result |-> Raised("IntegrityError")]
               /\ UNCHANGED <<tenants, users>>
          ELSE IF person.username = NoneText
          THEN /\ ret' = [op |-> "create_tenant", result |-> Raised("AttributeError")]
               /\ UNCHANGED <<tenants, users>>
          ELSE /\ tenants' = Append(tenants,
                     [name |-> name, domain |-> domain, status |-> "active"])
               /\ users' = Append(users, [admin EXCEPT !.admin = TRUE])
               /\ ret' = [op |-> "create_tenant", result |-> [kind |-> "ok"]]
    /\ UNCHANGED <<invitations, sessions, issued, now, current_user, acc,
                   legacy, conversations, settings>>
    /\ UNCHANGED config

\* create_user(tenant_id, username, email, password, role, created_by)
CreateUser(tenant_id, person) ==
    /\ Len(users) < MaxUsers
    /\ LET row == NewUser(person.username, person.email, person.password,
                          tenant_id, person.role)
       IN IF UserConstraintViolated(users, row)
          THEN /\ ret' = [op |-> "create_user", result |-> Raised("IntegrityError")]
               /\ UNCHANGED users
          ELSE /\ users' = Append(users, row)
               /\ ret' = [op |-> "create_user", result |-> [kind |-> "ok"]]
    /\ UNCHANGED <<tenants, invitations, sessions, issued, now, current_user, acc,
                   legacy, conversations, settings>>
    /\ UNCHANGED config

\* deactivate_user(user_id, deactivated_by)
DeactivateUser(user_id) ==
    /\ IF user_id \in UserIds
       THEN /\ users' = [users EXCEPT ![user_id].is_active = FALSE]
            /\ ret' = [op |-> "deactivate_user", result |-> [kind |-> "ok"]]
       ELSE /\ ret' = [op |-> "deactivate_user", result |-> NoUser]
            /\ UNCHANGED users
    /\ UNCHANGED <<tenants, invitations, sessions, issued, now, current_user, acc,
                   legacy, conversations, settings>>
    /\ UNCHANGED config

\* get_user_by_id without the test of the tenant's status
GetUserIgnoringTenant(user_id) ==
    IF user_id \in UserIds /\ users[user_id].is_active
    THEN AuthUser(user_id)
    ELSE NoUser

\* get_user_by_id(user_id)
get_user_by_id(user_id) ==
    IF /\ user_id \in UserIds
       /\ users[user_id].is_active
       /\ tenants[users[user_id].tenant_id].status = "active"
    THEN AuthUser(user_id)
    ELSE NoUser

----------------------------------------------------------------------------
(* TenantAuthService: invitations.  accept_invitation runs in its own database
   session; another request's commit can fall between its two queries and its
   own commit, so it is three steps: the invitation query, the existing-user
   query, the commit. *)

\* TenantInvitation(email=..., tenant_id=..., role=..., invited_by=...)
NewInvitation(email, tenant_id, role, invited_by, t) ==
    [email |-> email,
     tenant_id |-> tenant_id,
     role |-> role,
     invited_by |-> invited_by,
     expires_at |-> t + InvitationExpiryDays * 24,
     accepted_at |-> NullTime,
     is_used |-> FALSE]

\* invite_user(tenant_id, email, role, invited_by)
InviteUser(tenant_id, email, role, invited_by) ==
    /\ Len(invitations) < MaxInvitations
    /\ invitations' = Append(invitations,
                             NewInvitation(email, tenant_id, role, invited_by, now))
    /\ ret' = [op |-> "invite_user",
               result |-> [kind |-> "invitation", token |-> Len(invitations) + 1]]
    /\ UNCHANGED <<tenants, users, sessions, issued, now, current_user, acc,
                   legacy, conversations, settings>>
    /\ UNCHANGED config

\* the expiry test left out
FindInvitationAnyAge(rows, token, t) ==
    token \in 1..Len(rows) /\ ~rows[token].is_used

\* where token == token, is_used == False, expires_at > now
FindInvitation(rows, token, t) ==
    /\ token \in 1..Len(rows)
    /\ ~rows[token].is_used
    /\ rows[token].expires_at > t

\* the username compared as typed
ExistingUserExactCase(rows, tenant_id, username, email) ==
    \E i \in 1..Len(rows) :
        /\ rows[i].tenant_id = tenant_id
        /\ (rows[i].username = username \/ rows[i].email = email)

\* where tenant_id == invitation.tenant_id,
\*       (username_lower == username.lower()) | (email == invitation.email)
ExistingUser(rows, tenant_id, username, email) ==
    \E i \in 1..Len(rows) :
        /\ rows[i].tenant_id = tenant_id
        /\ (rows[i].username_lower = Lower(username) \/ rows[i].email = email)

\* the role left at the column's default
InvitedUserDefaultRole(invitation, token, username, password) ==
    [NewUser(username, invitation.email, password, invitation.tenant_id, "user")
        EXCEPT !.via = token]

\* TenantUser(username=username, email=invitation.email, role=invitation.role, ...)
InvitedUser(invitation, token, username, password) ==
    [NewUser(username, invitation.email, password, invitation.tenant_id,
             invitation.role)
        EXCEPT !.via = token]

\* accepted_at left unset
MarkUsedNoStamp(invitation, t) == [invitation EXCEPT !.is_used = TRUE]

\* invitation.is_used = True; invitation.accepted_at = now
MarkUsed(invitation, t) == [invitation EXCEPT !.is_used = TRUE, !.accepted_at = t]

AcceptResult(p, token, username, result) ==
    [op |-> "accept_invitation", proc |-> p, token |-> token,
     username |-> username, result |-> result]

\* accept_invitation(token, username, password): the invitation query and
\* "if not invitation: return None"
AcceptBegin(p, token, username, password) ==
    /\ acc[p].pc = "idle"
    /\ IF FindInvitation(invitations, token, now)
       THEN /\ acc' = [acc EXCEPT ![p] =
                         [pc |-> "check", token |-> token, username |-> username,
                          password |-> password, nusers |-> Len(users)]]
            /\ ret' = [op |-> "accept_begin"]
       ELSE /\ ret' = AcceptResult(p, token, username, NoUser)
            /\ UNCHANGED acc
    /\ UNCHANGED <<tenants, users, invitations, sessions, issued, now, current_user,
                   legacy, conversations, settings>>
    /\ UNCHANGED config

\* the existing-user query and "if existing_user: return None"
AcceptCheck(p) ==
    /\ acc[p].pc = "check"
    /\ LET invitation == invitations[acc[p].token]
       IN IF ExistingUser(users, invitation.tenant_id, acc[p].username,
                          invitation.email)
          THEN /\ acc' = [acc EXCEPT ![p] = IdleAcc]
               /\ ret' = AcceptResult(p, acc[p].token, acc[p].username, NoUser)
          ELSE /\ acc' = [acc EXCEPT ![p].pc = "commit"]
               /\ ret' = [op |-> "accept_check"]
    /\ UNCHANGED <<tenants, users, invitations, sessions, issued, now, current_user,
                   legacy, conversations, settings>>
    /\ UNCHANGED config

\* session.add(user); invitation.is_used = True; ...; session.commit()
AcceptCommit(p) ==
    /\ acc[p].pc = "commit"
    /\ Len(users) < MaxUsers + MaxInvitations
    /\ LET token == acc[p].token
           row == InvitedUser(invitations[token], token, acc[p].username,
                              acc[p].password)
       IN IF UserConstraintViolated(users, row)
          THEN /\ ret' = AcceptResult(p, token, acc[p].username,
                                      Raised("IntegrityError"))
               /\ UNCHANGED <<users, invitations>>
          ELSE /\ users' = Append(users, row)
               /\ invitations' = [invitations EXCEPT ![token] = MarkUsed(@, now)]
               /\ ret' = AcceptResult(p, token, acc[p].username,
                                      [kind |-> "user", id |-> Len(users) + 1] @@ row)
    /\ acc' = [acc EXCEPT ![p] = IdleAcc]
    /\ UNCHANGED <<tenants, sessions, issued, now, current_user,
                   legacy, conversations, settings>>
    /\ UNCHANGED config

----------------------------------------------------------------------------
(* TenantPage *)

\* _load_user_context(user_id)
LoadUserContext(user_id) ==
    /\ IF user_id = 0
       THEN UNCHANGED current_user
       ELSE current_user' = get_user_by_id(user_id)
    /\ ret' = [op |-> "load_user_context"]
    /\ UNCHANGED <<tenants, users, invitations, sessions, issued, now, acc,
                   legacy, conversations, settings>>
    /\ UNCHANGED config

\* _save_tenant_settings(name, domain, status, settings_json)
SaveTenantSettings(name, domain, status) ==
    /\ IF ~require_admin(current_user)
       THEN /\ ret' = [op |-> "save_tenant_settings", result |-> [kind |-> "denied"]]
            /\ UNCHANGED tenants
       ELSE LET tid == current_user.tenant_id
                row == [name |-> IF name # "" THEN name ELSE tenants[tid].name,
                        domain |-> IF domain # "" THEN domain ELSE NullDomain,
                        status |-> IF status # "" THEN status
                                   ELSE tenants[tid].status]
            IN IF DomainConstraintViolated(tenants, row.domain, tid)
               THEN /\ ret' = [op |-> "save_tenant_settings", result |-> [kind |-> "failed"]]
                    /\ UNCHANGED tenants
               ELSE /\ tenants' = [tenants EXCEPT ![tid] = row]
                    /\ ret' = [op |-> "save_tenant_settings", result |-> [kind |-> "saved"]]
    /\ UNCHANGED <<users, invitations, sessions, issued, now, current_user, acc,
                   legacy, conversations, settings>>
    /\ UNCHANGED config

----------------------------------------------------------------------------
(* TenantAuthService: login and sessions *)

\* the login query without its is_active filter
LoginRowsAnyUser(identity, tenant_domain) ==
    {u \in UserIds :
        /\ \/ users[u].username_lower = Strip(Lower(identity))
           \/ users[u].email = Strip(Lower(identity))
        /\ Truthy(tenant_domain) => tenants[users[u].tenant_id].domain = tenant_domain
        /\ tenants[users[u].tenant_id].status = "active"}

\* the rows the login query selects
LoginRows(identity, tenant_domain) ==
    {u \in UserIds :
        /\ \/ users[u].username_lower = Strip(Lower(identity))
           \/ users[u].email = Strip(Lower(identity))
        /\ Truthy(tenant_domain) => tenants[users[u].tenant_id].domain = tenant_domain
        /\ users[u].is_active
        /\ tenants[users[u].tenant_id].status = "active"}

\* str(uuid.uuid4()): an id no session had before
NextSid == Len(issued) + 1

\* history of one create_session call
Issue(user_id, t) ==
    [user_id |-> user_id, created_at |-> t,
     served |-> FALSE,     \* get_session has returned this session's record
     refused |-> FALSE,    \* get_session has returned none for this id
     deleted |-> FALSE,    \* delete_session has removed the record
     logout |-> FALSE]     \* the user has logged out since

\* authenticate_user(username, password, tenant_domain).  The query has no
\* ORDER BY: .first() is any one of the selected rows.
AuthenticateUser(identity, password, tenant_domain) ==
    /\ IF LoginRows(identity, tenant_domain) = {}
       THEN /\ ret' = [op |-> "authenticate_user", identity |-> identity,
                       password |-> password, tenant_domain |-> tenant_domain,
                       result |-> NoUser]
            /\ UNCHANGED <<users, sessions, issued>>
       ELSE \E u \in LoginRows(identity, tenant_domain) :
              IF ~verify_password(password, users[u].password)
              THEN /\ ret' = [op |-> "authenticate_user", identity |-> identity,
                       password |-> password, tenant_domain |-> tenant_domain,
                       result |-> NoUser]
                   /\ UNCHANGED <<users, sessions, issued>>
              ELSE /\ Len(issued) < MaxSessions
                   /\ users' = [users EXCEPT ![u].last_login = now]
                   /\ \E out \in CreateSessionOutcomes(sessions, AuthUser(u),
                                                       NextSid, now) :
                        /\ sessions' = out.files
                        /\ issued' = IF out.result.kind = "raised" THEN issued
                                      ELSE Append(issued, Issue(u, now))
                        /\ ret' = [op |-> "authenticate_user", identity |-> identity,
                                   password |-> password,
                                   tenant_domain |-> tenant_domain,
                                   result |->
                                     IF out.result.kind = "raised" THEN out.result
                                     ELSE [AuthUser(u) EXCEPT
                                             !.session_id = out.result.session_id]]
    /\ UNCHANGED <<tenants, invitations, now, current_user, acc,
                   legacy, conversations, settings>>
    /\ UNCHANGED config

\* create_session(auth_user)
CreateSession(user_id) ==
    /\ Len(issued) < MaxSessions
    /\ \E out \in CreateSessionOutcomes(sessions, AuthUser(user_id), NextSid, now) :
         /\ sessions' = out.files
         /\ issued' = IF out.result.kind = "raised" THEN issued
                       ELSE Append(issued, Issue(user_id, now))
         /\ ret' = [op |-> "create_session", user_id |-> user_id,
                    result |-> out.result]
    /\ UNCHANGED <<tenants, users, invitations, now, current_user, acc,
                   legacy, conversations, settings>>
    /\ UNCHANGED config

\* create_session(auth_user) in a run that makes at most max sessions
CreateSessionWithin(user_id, max) ==
    /\ Len(issued) < max
    /\ \E out \in CreateSessionOutcomes(sessions, AuthUser(user_id), NextSid, now) :
         /\ sessions' = out.files
         /\ issued' = IF out.result.kind = "raised" THEN issued
                       ELSE Append(issued, Issue(user_id, now))
         /\ ret' = [op |-> "create_session", user_id |-> user_id,
                    result |-> out.result]
    /\ UNCHANGED <<tenants, users, invitations, now, current_user, acc,
                   legacy, conversations, settings>>
    /\ UNCHANGED config

\* get_session(session_id)
GetSession(session_id) ==
    /\ LET absent == session_id = EmptySid \/ session_id \notin DOMAIN sessions
           outcome == IF absent THEN "absent" ELSE ReadOutcome(sessions[session_id])
           result ==
               CASE absent -> NoUser
                 [] outcome = "ok" ->
                      IF IsExpired(sessions[session_id], now) THEN NoUser
                      ELSE sessions[session_id]
                 [] outcome \in GetSessionCaught -> NoUser
                 [] OTHER -> Raised(outcome)
           unlink ==
               /\ ~absent
               /\ \/ outcome = "ok" /\ IsExpired(sessions[session_id], now)
                  \/ outcome \in GetSessionCaught
       IN /\ sessions' = IF unlink THEN Without(sessions, {session_id}) ELSE sessions
          /\ ret' = [op |-> "get_session", session_id |-> session_id,
                     result |-> result]
          /\ issued' = [i \in DOMAIN issued |->
                          IF i # session_id THEN issued[i]
                          ELSE IF result.kind = "none"
                               THEN [issued[i] EXCEPT !.refused = TRUE]
                               ELSE IF result.kind = "record"
                                    THEN [issued[i] EXCEPT !.served = TRUE]
                                    ELSE issued[i]]
    /\ UNCHANGED <<tenants, users, invitations, now, current_user, acc,
                   legacy, conversations, settings>>
    /\ UNCHANGED config

\* delete_session(session_id) -> _delete_session(session_id)
DeleteSession(session_id) ==
    /\ sessions' = Without(sessions, {session_id})
    /\ ret' = [op |-> "delete_session", session_id |-> session_id,
               result |-> [kind |-> IF session_id \in DOMAIN sessions
                                    THEN "true" ELSE "false"]]
    /\ issued' = [i \in DOMAIN issued |->
                    IF i = session_id /\ session_id \in DOMAIN sessions
                    THEN [issued[i] EXCEPT !.deleted = TRUE] ELSE issued[i]]
    /\ UNCHANGED <<tenants, users, invitations, now, current_user, acc,
                   legacy, conversations, settings>>
    /\ UNCHANGED config

\* create_session when another request can run between open(session_file, 'w')
\* and the end of the with block: the file exists and is empty until the
\* buffered json.dump output is flushed at close
EmptyFile == [kind |-> "unparseable"]

\* create_session up to open(session_file, 'w')
CreateSessionOpen(p, user_id) ==
    /\ acc[p].pc = "idle"
    /\ Len(issued) < MaxWriters
    /\ IF CleanupRaises(sessions) # {}
       THEN /\ \E D \in SUBSET CleanupDeletes(sessions, now) :
                 sessions' = Without(sessions, D)
            /\ ret' = [op |-> "create_session", user_id |-> user_id,
                       result |-> Raised("TypeError")]
            /\ UNCHANGED <<issued, acc>>
       ELSE /\ sessions' = WithFile(Without(sessions, CleanupDeletes(sessions, now)),
                                    NextSid, EmptyFile)
            /\ issued' = Append(issued, Issue(user_id, now))
            /\ acc' = [acc EXCEPT ![p] = [pc |-> "write", sid |-> NextSid,
                                          user_id |-> user_id, created_at |-> now]]
            /\ ret' = [op |-> "create_session_open"]
    /\ UNCHANGED <<tenants, users, invitations, now, current_user,
                   legacy, conversations, settings>>
    /\ UNCHANGED config

\* json.dump(session_data, f), close, return session_id: the content reaches
\* the file if it is still linked in the directory
CreateSessionWrite(p) ==
    /\ acc[p].pc = "write"
    /\ sessions' = IF acc[p].sid \in DOMAIN sessions
                   THEN WithFile(sessions, acc[p].sid,
                                 SessionRecord(acc[p].sid, AuthUser(acc[p].user_id),
                                               acc[p].created_at))
                   ELSE sessions
    /\ ret' = [op |-> "create_session", user_id |-> acc[p].user_id,
               result |-> [kind |-> "session", session_id |-> acc[p].sid]]
    /\ acc' = [acc EXCEPT ![p] = IdleAcc]
    /\ UNCHANGED <<tenants, users, invitations, issued, now, current_user,
                   legacy, conversations, settings>>
    /\ UNCHANGED config

\* except (json.JSONDecodeError, KeyError, ValueError): continue
RestoreCaught == {"JSONDecodeError", "KeyError", "ValueError"}

\* BaseApp._restore_user_session(): the user id of the most recent valid
\* session, if that user can still be loaded
RestoreUserSession ==
    LET valid == {i \in DOMAIN sessions :
                     /\ ReadOutcome(sessions[i]) = "ok"
                     /\ ~IsExpired(sessions[i], now)}
        latest == {i \in valid :
                     \A j \in valid : sessions[j].created_at <= sessions[i].created_at}
        raises == \E i \in DOMAIN sessions :
                     ReadOutcome(sessions[i]) \notin RestoreCaught \cup {"ok"}
    IN /\ IF raises \/ valid = {}
          THEN /\ ret' = [op |-> "restore_user_session", result |-> NoUser]
               /\ UNCHANGED <<sessions, issued>>
          ELSE \E i \in latest :
                 IF get_user_by_id(sessions[i].user_id) # NoUser
                 THEN /\ ret' = [op |-> "restore_user_session",
                                 result |-> [kind |-> "user_id",
                                             user_id |-> sessions[i].user_id,
                                             session_id |-> i]]
                      /\ UNCHANGED <<sessions, issued>>
                 ELSE /\ sessions' = Without(sessions, {i})
                      /\ issued' = [j \in DOMAIN issued |->
                                      IF j = i THEN [issued[j] EXCEPT !.deleted = TRUE]
                                      ELSE issued[j]]
                      /\ ret' = [op |-> "restore_user_session", result |-> NoUser]
       /\ UNCHANGED <<tenants, users, invitations, now, current_user, acc,
                   legacy, conversations, settings, config>>

\* handle_logout(): the page's user_id becomes None; nothing else is touched
HandleLogout(user_id) ==
    /\ \E i \in DOMAIN issued : issued[i].user_id = user_id /\ ~issued[i].logout
    /\ issued' = [i \in DOMAIN issued |->
                    IF issued[i].user_id = user_id
                    THEN [issued[i] EXCEPT !.logout = TRUE] ELSE issued[i]]
    /\ ret' = [op |-> "handle_logout", user_id |-> user_id, result |-> NoUser]
    /\ UNCHANGED <<tenants, users, invitations, sessions, now, current_user, acc,
                   legacy, conversations, settings>>
    /\ UNCHANGED config

----------------------------------------------------------------------------
(* Migration of the single-tenant tables (utils/tenant_migration.py)       *)
(*                                                                         *)
(* Ids of the single-tenant schema are text.  A session is a transaction:  *)
(* rows added to it sit in acc[1] until session.commit() writes them to    *)
(* the tables, and leaving the session any other way discards them.        *)

Digit == <<"1", "2", "3", "4">>
LegacyUserNames == <<sBOB, sAmy, eBOB, eAmy>>

LegacyUserId(i) == <<"u", Digit[i]>>

\* a row of table user: id, username, username_lower, password, admin
LegacyUser(i, admin) ==
    [id |-> LegacyUserId(i),
     username |-> LegacyUserNames[i],
     username_lower |-> Lower(LegacyUserNames[i]),
     password |-> hash_password(LegacyUserNames[i]),
     admin |-> admin]

EmptyOwner == <<>>                                   \* user = ""
DefaultOwner == <<"d", "e", "f", "a", "u", "l", "t">>  \* user = "default"
NullId == <<"NULL">>                                 \* Python None / SQL NULL

\* the owner field of a conversation or settings row
Owners == {LegacyUserId(1), EmptyOwner, DefaultOwner}

LegacyConversation(j, owner) == [id |-> <<"c", Digit[j]>>, user |-> owner]

LegacySetting(j, owner) == [id |-> <<"s", Digit[j]>>, user |-> owner]

LegacyInputs ==
    {[users |-> [i \in 1..n |-> LegacyUser(i, flags[i])],
      conversations |-> [j \in 1..c |-> LegacyConversation(j, cown[j])],
      settings |-> [j \in 1..s |-> LegacySetting(j, sown[j])]] :
        <<n, flags, c, cown, s, sown>> \in
           UNION {UNION {UNION {
              {<<nn, f, cc, co, ss, so>> :
                  f \in [1..nn -> BOOLEAN],
                  co \in [1..cc -> Owners],
                  so \in [1..ss -> Owners]} :
              ss \in 0..MaxLegacyRows} :
              cc \in 0..MaxLegacyRows} :
              nn \in 0..MaxLegacyUsers}}

\* the single-tenant tables as a store that was used before the upgrade
InitLegacy ==
    /\ tenants = <<>>
    /\ users = <<>>
    /\ invitations = <<>>
    /\ sessions = <<>>
    /\ issued = <<>>
    /\ now = 0
    /\ current_user = NoUser
    /\ acc = [p \in {1, 2} |-> IdleAcc]
    /\ legacy \in LegacyInputs
    /\ conversations = <<>>
    /\ settings = <<>>
    /\ ret = [op |-> "init"]
    /\ config = DEFAULT_TENANT_CONFIG

DefaultTenant ==
    [name |-> "Default Organization", domain |-> NullDomain, status |-> "active"]

\* is_admin = (i == 0 and make_first_user_admin) or old_user.admin
MigratedRoleFlagOnly(i, old_user, make_first_user_admin) ==
    IF old_user.admin THEN "admin" ELSE "user"

MigratedRole(i, old_user, make_first_user_admin) ==
    IF (i = 1 /\ make_first_user_admin) \/ old_user.admin THEN "admin" ELSE "user"

\* TenantUser(id=old_user.id, ...) with a fresh primary key instead
MigratedUserNewId(i, old_user, tenant_id, make_first_user_admin) ==
    [NewUser(old_user.username, old_user.username, "", tenant_id,
             MigratedRole(i, old_user, make_first_user_admin))
        EXCEPT !.username_lower = old_user.username_lower,
               !.password = old_user.password,
               !.admin = old_user.admin]

\* TenantUser(id=old_user.id, username=..., email=old_user.username, ...)
MigratedUser(i, old_user, tenant_id, make_first_user_admin) ==
    [id |-> old_user.id,
     username |-> old_user.username,
     username_lower |-> old_user.username_lower,
     email |-> old_user.username,
     password |-> old_user.password,
     tenant_id |-> tenant_id,
     role |-> MigratedRole(i, old_user, make_first_user_admin),
     is_active |-> TRUE,
     last_login |-> NullTime,
     admin |-> old_user.admin,
     via |-> 0]

\* x or None
OrNone(x) == IF x # <<>> THEN x ELSE NullId

\* TenantConversation(id=old_conv.id, user_id=old_conv.user or None, ...)
MigratedConversation(old_conv, tenant_id) ==
    [id |-> old_conv.id,
     user_id |-> OrNone(old_conv.user),
     tenant_id |-> tenant_id,
     user |-> old_conv.user]

\* TenantSettings(id=old_setting.id, user_id=old_setting.user or None, ...)
MigratedSetting(old_setting, tenant_id) ==
    [id |-> old_setting.id,
     user_id |-> OrNone(old_setting.user),
     tenant_id |-> tenant_id,
     is_tenant_wide |-> (OrNone(old_setting.user) = NullId),
     user |-> old_setting.user]

\* foreign_key="tenantuser.id": the value is NULL or the id of a row,
\* on an engine that enforces foreign keys
ForeignKeyViolated(rows, U, foreign_keys) ==
    /\ foreign_keys
    /\ \E j \in 1..Len(rows) :
          /\ rows[j].user_id # NullId
          /\ \A u \in 1..Len(U) : U[u].id # rows[j].user_id

\* BaseTenantConversation.user_id: str (a column that is NOT NULL)
ConversationConstraintViolated(rows, U, foreign_keys) ==
    \/ \E j \in 1..Len(rows) : rows[j].user_id = NullId
    \/ ForeignKeyViolated(rows, U, foreign_keys)

\* BaseTenantSettings.user_id: Optional[str]
SettingsConstraintViolated(rows, U, foreign_keys) ==
    ForeignKeyViolated(rows, U, foreign_keys)

InMigration == {"mig_users", "mig_conversations", "mig_settings", "mig_commit"}

\* the session after session.add(default_tenant); session.flush()
OpenMigration(called_by, make_first_user_admin, foreign_keys) ==
    [pc |-> "mig_users",
     called_by |-> called_by,
     make_first_user_admin |-> make_first_user_admin,
     foreign_keys |-> foreign_keys,
     rerun |-> (ret.op = "migrate_to_tenant_system"),
     tenant |-> DefaultTenant,
     users |-> <<>>,
     conversations |-> <<>>,
     settings |-> <<>>]

\* migrate_to_tenant_system(make_first_user_admin=...), up to the flush
MigrateToTenantSystem(make_first_user_admin, foreign_keys) ==
    /\ acc[1].pc = "idle"
    /\ IF tenants # <<>>
       THEN /\ ret' = [op |-> "migrate_to_tenant_system", called_by |-> "direct",
                       result |-> [status |-> "skipped"]]
            /\ UNCHANGED acc
       ELSE /\ acc' = [acc EXCEPT ![1] =
                          OpenMigration("direct", make_first_user_admin, foreign_keys)]
            /\ ret' = [op |-> "migrate_begin"]
    /\ UNCHANGED <<tenants, users, invitations, sessions, issued, now, current_user,
                   legacy, conversations, settings>>
    /\ UNCHANGED config

\* the loop over select(User)
MigrateUsers ==
    /\ acc[1].pc = "mig_users"
    /\ acc' = [acc EXCEPT ![1].pc = "mig_conversations",
                          ![1].users =
                             [i \in 1..Len(legacy.users) |->
                                 MigratedUser(i, legacy.users[i], 1,
                                              acc[1].make_first_user_admin)]]
    /\ ret' = [op |-> "migrate_users"]
    /\ UNCHANGED <<tenants, users, invitations, sessions, issued, now, current_user,
                   legacy, conversations, settings>>
    /\ UNCHANGED config

\* the unique constraints of tenantuser among rows written in one flush
UserRowsClash(rows) ==
    \E i, j \in 1..Len(rows) :
        /\ i < j
        /\ rows[i].tenant_id = rows[j].tenant_id
        /\ (rows[i].username = rows[j].username \/ rows[i].email = rows[j].email)

\* an exception leaves the session: nothing is committed; main.py's handler
\* for the start of the process prints a warning and goes on
MigrationRaised(error) ==
    /\ acc' = [acc EXCEPT ![1] = IdleAcc]
    /\ ret' = [op |-> "migrate_to_tenant_system", called_by |-> acc[1].called_by,
               rerun |-> acc[1].rerun, result |-> Raised(error)]
    /\ UNCHANGED <<tenants, users, conversations, settings>>
    /\ UNCHANGED config

\* the loop over select(Conversation) that passes over rows without an owner
MigrateConversationsOwnedOnly ==
    /\ acc[1].pc = "mig_conversations"
    /\ acc' = [acc EXCEPT ![1].pc = "mig_settings",
                          ![1].conversations =
                             [j \in 1..Len(SelectSeq(legacy.conversations,
                                                     LAMBDA r : r.user # EmptyOwner)) |->
                                 MigratedConversation(
                                    SelectSeq(legacy.conversations,
                                              LAMBDA r : r.user # EmptyOwner)[j], 1)]]
    /\ ret' = [op |-> "migrate_conversations"]
    /\ UNCHANGED <<tenants, users, invitations, sessions, issued, now, current_user,
                   legacy, conversations, settings>>
    /\ UNCHANGED config

\* select(Conversation) writes the pending users first, then the loop runs
MigrateConversations ==
    /\ acc[1].pc = "mig_conversations"
    /\ IF UserRowsClash(acc[1].users)
       THEN MigrationRaised("IntegrityError")
       ELSE /\ acc' = [acc EXCEPT ![1].pc = "mig_settings",
                                  ![1].conversations =
                                     [j \in 1..Len(legacy.conversations) |->
                                         MigratedConversation(legacy.conversations[j], 1)]]
            /\ ret' = [op |-> "migrate_conversations"]
            /\ UNCHANGED <<tenants, users, conversations, settings>>
    /\ UNCHANGED <<invitations, sessions, issued, now, current_user, legacy>>
    /\ UNCHANGED config

\* select(Settings) writes the pending conversations first, then the loop runs
MigrateSettings ==
    /\ acc[1].pc = "mig_settings"
    /\ IF ConversationConstraintViolated(acc[1].conversations, acc[1].users,
                                         acc[1].foreign_keys)
       THEN MigrationRaised("IntegrityError")
       ELSE /\ acc' = [acc EXCEPT ![1].pc = "mig_commit",
                                  ![1].settings =
                                     [j \in 1..Len(legacy.settings) |->
                                         MigratedSetting(legacy.settings[j], 1)]]
            /\ ret' = [op |-> "migrate_settings"]
            /\ UNCHANGED <<tenants, users, conversations, settings>>
    /\ UNCHANGED <<invitations, sessions, issued, now, current_user, legacy>>
    /\ UNCHANGED config

\* session.commit() that also commits what was written so far when it fails
MigrateCommitKeepsFlushed ==
    /\ acc[1].pc = "mig_commit"
    /\ tenants' = <<acc[1].tenant>>
    /\ users' = acc[1].users
    /\ conversations' = acc[1].conversations
    /\ IF SettingsConstraintViolated(acc[1].settings, acc[1].users, acc[1].foreign_keys)
       THEN /\ acc' = [acc EXCEPT ![1] = IdleAcc]
            /\ ret' = [op |-> "migrate_to_tenant_system",
                       called_by |-> acc[1].called_by,
                       rerun |-> acc[1].rerun, result |-> Raised("IntegrityError")]
            /\ UNCHANGED settings
       ELSE /\ settings' = acc[1].settings
            /\ acc' = [acc EXCEPT ![1] = IdleAcc]
            /\ ret' = [op |-> "migrate_to_tenant_system",
                       called_by |-> acc[1].called_by,
                       rerun |-> acc[1].rerun,
                       make_first_user_admin |-> acc[1].make_first_user_admin,
                       result |-> [status |-> "success",
                                   migrated |-> [users |-> Len(acc[1].users),
                                                 conversations |-> Len(acc[1].conversations),
                                                 settings |-> Len(acc[1].settings)]]]
    /\ UNCHANGED <<invitations, sessions, issued, now, current_user, legacy>>
    /\ UNCHANGED config

\* session.commit() and the report
MigrateCommit ==
    /\ acc[1].pc = "mig_commit"
    /\ IF SettingsConstraintViolated(acc[1].settings, acc[1].users, acc[1].foreign_keys)
       THEN MigrationRaised("IntegrityError")
       ELSE /\ tenants' = <<acc[1].tenant>>
            /\ users' = acc[1].users
            /\ conversations' = acc[1].conversations
            /\ settings' = acc[1].settings
            /\ acc' = [acc EXCEPT ![1] = IdleAcc]
            /\ ret' = [op |-> "migrate_to_tenant_system",
                       called_by |-> acc[1].called_by,
                       rerun |-> acc[1].rerun,
                       make_first_user_admin |-> acc[1].make_first_user_admin,
                       result |-> [status |-> "success",
                                   migrated |-> [users |-> Len(acc[1].users),
                                                 conversations |-> Len(acc[1].conversations),
                                                 settings |-> Len(acc[1].settings)]]]
    /\ UNCHANGED <<invitations, sessions, issued, now, current_user, legacy>>
    /\ UNCHANGED config

\* the process stops inside the session
StopInMigration ==
    /\ acc[1].pc \in InMigration
    /\ acc' = [acc EXCEPT ![1] = IdleAcc]
    /\ ret' = [op |-> "stopped"]
    /\ UNCHANGED <<tenants, users, invitations, sessions, issued, now, current_user,
                   legacy, conversations, settings>>
    /\ UNCHANGED config

\* verify_migration()
verify_migration(L, T, U, C, S) ==
    [tenants_created |-> Len(T),
     migration_complete |-> (Len(T) > 0),
     users |-> [original |-> Len(L.users), migrated |-> Len(U),
                match |-> (Len(L.users) = Len(U))],
     conversations |-> [original |-> Len(L.conversations), migrated |-> Len(C),
                        match |-> (Len(L.conversations) = Len(C))],
     settings |-> [original |-> Len(L.settings), migrated |-> Len(S),
                   match |-> (Len(L.settings) = Len(S))]]

\* get_migration_status()["status"]
get_migration_status ==
    IF tenants # <<>> THEN "migrated"
    ELSE IF legacy.users # <<>> THEN "needs_migration"
    ELSE "fresh_install"

sSuperAdmin == <<"s", "u", "p", "e", "r", "a", "d", "m", "i", "n">>
sAdmin == <<"a", "d", "m", "i", "n">>
sUser == <<"u", "s", "e", "r">>
eSuperAdmin == <<"s", "@", "k">>
eAdmin == <<"a", "@", "k">>
eUser == <<"u", "@", "k">>

\* create_tenant(name, domain, admin_username, admin_email, admin_password)
\* called on a store without tenants
DefaultTenantAdmin ==
    [NewUser(sSuperAdmin, eSuperAdmin, "superadmin", 1, "admin") EXCEPT !.admin = TRUE]

\* run_migration_if_needed(), the first call of the start of the process
RunMigrationIfNeeded(foreign_keys) ==
    /\ acc[1].pc = "idle"
    /\ LET status == get_migration_status
       IN CASE status = "needs_migration" ->
                 /\ acc' = [acc EXCEPT ![1] = OpenMigration("startup", TRUE, foreign_keys)]
                 /\ ret' = [op |-> "migrate_begin"]
                 /\ UNCHANGED <<tenants, users>>
            [] status = "migrated" ->
                 /\ acc' = [acc EXCEPT ![1] = [pc |-> "ensure"]]
                 /\ ret' = [op |-> "run_migration_if_needed", status |-> status,
                            result |-> FALSE]
                 /\ UNCHANGED <<tenants, users>>
            [] status = "fresh_install" ->
                 /\ tenants' = <<DefaultTenant>>
                 /\ users' = <<DefaultTenantAdmin>>
                 /\ ret' = [op |-> "run_migration_if_needed", status |-> status,
                            result |-> TRUE]
                 /\ UNCHANGED acc
    /\ UNCHANGED <<invitations, sessions, issued, now, current_user,
                   legacy, conversations, settings>>
    /\ UNCHANGED config

\* ensure_default_tenant(), called when run_migration_if_needed returned False
EnsureDefaultTenant ==
    /\ acc[1].pc = "ensure"
    /\ acc' = [acc EXCEPT ![1] = IdleAcc]
    /\ IF tenants # <<>>
       THEN /\ ret' = [op |-> "ensure_default_tenant", result |-> FALSE]
            /\ UNCHANGED <<tenants, users>>
       ELSE /\ tenants' = <<DefaultTenant>>
            /\ users' = <<[DefaultTenantAdmin EXCEPT !.role = "super_admin"],
                          [NewUser(sAdmin, eAdmin, "admin", 1, "admin")
                              EXCEPT !.admin = FALSE],
                          NewUser(sUser, eUser, "user", 1, "user")>>
            /\ ret' = [op |-> "ensure_default_tenant", result |-> TRUE]
    /\ UNCHANGED <<invitations, sessions, issued, now, current_user,
                   legacy, conversations, settings>>
    /\ UNCHANGED config

----------------------------------------------------------------------------
(* TenantAuthMiddleware: the checks, called on a user context of any shape *)

\* an AuthUser object, or None
UserContexts ==
    {NoUser} \cup
    {[kind |-> "user", id |-> id, username |-> sBob, email |-> eBob,
      tenant_id |-> tenant_id, tenant_name |-> "Acme", role |-> role,
      is_active |-> is_active, session_id |-> 0] :
        id \in 1..MaxUsers, tenant_id \in 1..MaxTenants,
        role \in UserRole, is_active \in BOOLEAN}

\* can_manage_user without the comparison of tenants
CanManageAnyTenant(actor, target_user_id) ==
    /\ require_admin(actor)
    /\ target_user_id \in UserIds

\* can_manage_user(actor, target_user_id)
can_manage_user(actor, target_user_id) ==
    IF ~require_admin(actor) THEN FALSE
    ELSE IF target_user_id \notin UserIds THEN FALSE
    ELSE actor.tenant_id = users[target_user_id].tenant_id

\* require_auth(user_context); the checks only read
RequireAuth(user_context) ==
    /\ ret' = [op |-> "require_auth", user_context |-> user_context,
               result |-> require_auth(user_context)]
    /\ UNCHANGED <<tenants, users, invitations, sessions, issued, now, current_user,
                   acc, legacy, conversations, settings>>
    /\ UNCHANGED config

\* require_admin(user_context)
RequireAdmin(user_context) ==
    /\ ret' = [op |-> "require_admin", user_context |-> user_context,
               result |-> require_admin(user_context)]
    /\ UNCHANGED <<tenants, users, invitations, sessions, issued, now, current_user,
                   acc, legacy, conversations, settings>>
    /\ UNCHANGED config

\* AuthUser.is_super_admin
IsSuperAdmin(user_context) ==
    /\ user_context.kind = "user"
    /\ ret' = [op |-> "is_super_admin", user_context |-> user_context,
               result |-> is_super_admin(user_context)]
    /\ UNCHANGED <<tenants, users, invitations, sessions, issued, now, current_user,
                   acc, legacy, conversations, settings>>
    /\ UNCHANGED config

CanManageUser(actor, target_user_id) ==
    /\ ret' = [op |-> "can_manage_user", user_context |-> actor,
               target_user_id |-> target_user_id,
               result |-> can_manage_user(actor, target_user_id)]
    /\ UNCHANGED <<tenants, users, invitations, sessions, issued, now, current_user,
                   acc, legacy, conversations, settings>>
    /\ UNCHANGED config

\* update_user_role(user_id, new_role, updated_by)
UpdateUserRole(user_id, new_role) ==
    /\ IF user_id \in UserIds
       THEN /\ users' = [users EXCEPT ![user_id].role = new_role,
                                      ![user_id].admin = (new_role = "admin")]
            /\ ret' = [op |-> "update_user_role", result |-> [kind |-> "ok"]]
       ELSE /\ ret' = [op |-> "update_user_role", result |-> NoUser]
            /\ UNCHANGED users
    /\ UNCHANGED <<tenants, invitations, sessions, issued, now, current_user, acc,
                   legacy, conversations, settings>>
    /\ UNCHANGED config

\* a call of get_user_by_id(user_id) from outside the page
GetUserById(user_id) ==
    /\ ret' = [op |-> "get_user_by_id", user_id |-> user_id,
               result |-> get_user_by_id(user_id)]
    /\ UNCHANGED <<tenants, users, invitations, sessions, issued, now, current_user,
                   acc, legacy, conversations, settings>>
    /\ UNCHANGED config

\* the role handed on with no mapping
PageRoleAsGiven(role) == role

\* user_role = UserRole.ADMIN if role == "admin" else UserRole.USER
PageRole(role) == IF role = "admin" THEN "admin" ELSE "user"

\* TenantPage._add_user(username, email, password, role)
AddUser(person) ==
    /\ Len(users) < MaxUsers
    /\ IF ~require_admin(current_user)
       THEN /\ ret' = [op |-> "add_user", result |-> [kind |-> "denied"]]
            /\ UNCHANGED users
       ELSE LET row == NewUser(person.username, person.email, person.password,
                               current_user.tenant_id,
                               PageRole(person.role))
            IN IF UserConstraintViolated(users, row)
               THEN /\ ret' = [op |-> "add_user", result |-> [kind |-> "failed"]]
                    /\ UNCHANGED users
               ELSE /\ users' = Append(users, row)
                    /\ ret' = [op |-> "add_user", result |-> [kind |-> "added"]]
    /\ UNCHANGED <<tenants, invitations, sessions, issued, now, current_user, acc,
                   legacy, conversations, settings>>
    /\ UNCHANGED config

\* TenantPage._send_invitation(email, role)
SendInvitation(email, role) ==
    /\ Len(invitations) < MaxInvitations
    /\ IF ~require_admin(current_user)
       THEN /\ ret' = [op |-> "send_invitation", result |-> [kind |-> "denied"]]
            /\ UNCHANGED invitations
       ELSE /\ invitations' =
                 Append(invitations,
                        NewInvitation(email, current_user.tenant_id,
                                      PageRole(role),
                                      current_user.id, now))
            /\ ret' = [op |-> "send_invitation", result |-> [kind |-> "sent"]]
    /\ UNCHANGED <<tenants, users, sessions, issued, now, current_user, acc,
                   legacy, conversations, settings>>
    /\ UNCHANGED config

\* ensure_default_tenant() called on its own
SeedDefaultTenant ==
    /\ acc[1].pc = "idle"
    /\ IF tenants # <<>>
       THEN /\ ret' = [op |-> "ensure_default_tenant", result |-> FALSE]
            /\ UNCHANGED <<tenants, users>>
       ELSE /\ tenants' = <<DefaultTenant>>
            /\ users' = <<[DefaultTenantAdmin EXCEPT !.role = "super_admin"],
                          [NewUser(sAdmin, eAdmin, "admin", 1, "admin")
                              EXCEPT !.admin = FALSE],
                          NewUser(sUser, eUser, "user", 1, "user")>>
            /\ ret' = [op |-> "ensure_default_tenant", result |-> TRUE]
    /\ UNCHANGED <<invitations, sessions, issued, now, current_user, acc,
                   legacy, conversations, settings>>
    /\ UNCHANGED config

\* the page opened in browser p: its gr.State user_id and whether the load
\* event has run there
PageOpen(user_id) == [pc |-> "page", user_id |-> user_id]

\* app.load in browser p: _load_user_context(self._app.user_id) on the one
\* TenantPage instance of the app
PageLoad(p, user_id) ==
    /\ acc[p].pc \in {"idle", "page"}
    /\ current_user' = get_user_by_id(user_id)
    /\ acc' = [acc EXCEPT ![p] = PageOpen(user_id)]
    /\ ret' = [op |-> "page_load", proc |-> p, by |-> user_id]
    /\ UNCHANGED <<tenants, users, invitations, sessions, issued, now,
                   legacy, conversations, settings>>
    /\ UNCHANGED config

\* the add-user button pressed in browser p: _add_user(username, email,
\* password, role)
PageAddUser(p, person) ==
    /\ acc[p].pc = "page"
    /\ Len(users) < MaxUsers
    /\ IF ~require_admin(current_user)
       THEN /\ ret' = [op |-> "page_add_user", proc |-> p, by |-> acc[p].user_id,
                       result |-> [kind |-> "denied"]]
            /\ UNCHANGED users
       ELSE LET row == NewUser(person.username, person.email, person.password,
                               current_user.tenant_id,
                               PageRole(person.role))
            IN IF UserConstraintViolated(users, row)
               THEN /\ ret' = [op |-> "page_add_user", proc |-> p,
                               by |-> acc[p].user_id,
                               result |-> [kind |-> "failed"]]
                    /\ UNCHANGED users
               ELSE /\ users' = Append(users, row)
                    /\ ret' = [op |-> "page_add_user", proc |-> p,
                               by |-> acc[p].user_id,
                               result |-> [kind |-> "added"]]
    /\ UNCHANGED <<tenants, invitations, sessions, issued, now, current_user, acc,
                   legacy, conversations, settings>>
    /\ UNCHANGED config

\* the send-invitation button pressed in browser p: _send_invitation(email, role)
PageSendInvitation(p, email, role) ==
    /\ acc[p].pc = "page"
    /\ Len(invitations) < MaxInvitations
    /\ IF ~require_admin(current_user)
       THEN /\ ret' = [op |-> "page_send_invitation", proc |-> p,
                       by |-> acc[p].user_id, result |-> [kind |-> "denied"]]
            /\ UNCHANGED invitations
       ELSE /\ invitations' =
                 Append(invitations,
                        NewInvitation(email, current_user.tenant_id,
                                      PageRole(role),
                                      current_user.id, now))
            /\ ret' = [op |-> "page_send_invitation", proc |-> p,
                       by |-> acc[p].user_id, result |-> [kind |-> "sent"]]
    /\ UNCHANGED <<tenants, users, sessions, issued, now, current_user, acc,
                   legacy, conversations, settings>>
    /\ UNCHANGED config

\* the save button pressed in browser p: _save_tenant_settings(name, domain,
\* status, settings_json)
PageSaveSettings(p, name, domain, status) ==
    /\ acc[p].pc = "page"
    /\ IF ~require_admin(current_user)
       THEN /\ ret' = [op |-> "page_save_settings", proc |-> p,
                       by |-> acc[p].user_id, result |-> [kind |-> "denied"]]
            /\ UNCHANGED tenants
       ELSE LET tid == current_user.tenant_id
                row == [name |-> IF name # "" THEN name ELSE tenants[tid].name,
                        domain |-> IF domain # "" THEN domain ELSE NullDomain,
                        status |-> IF status # "" THEN status
                                   ELSE tenants[tid].status]
            IN IF DomainConstraintViolated(tenants, row.domain, tid)
               THEN /\ ret' = [op |-> "page_save_settings", proc |-> p,
                               by |-> acc[p].user_id,
                               result |-> [kind |-> "failed"]]
                    /\ UNCHANGED tenants
               ELSE /\ tenants' = [tenants EXCEPT ![tid] = row]
                    /\ ret' = [op |-> "page_save_settings", proc |-> p,
                               by |-> acc[p].user_id,
                               result |-> [kind |-> "saved"]]
    /\ UNCHANGED <<users, invitations, sessions, issued, now, current_user, acc,
                   legacy, conversations, settings>>
    /\ UNCHANGED config

\* process p has gone through the startup sequence of main.py
Started == [pc |-> "started"]

\* run_migration_if_needed() in process p, up to the status it reads
StartupStatus(p) ==
    /\ acc[p].pc = "idle"
    /\ acc' = [acc EXCEPT ![p] = [pc |-> "startup", status |-> get_migration_status]]
    /\ ret' = [op |-> "get_migration_status", proc |-> p,
               result |-> [status |-> get_migration_status]]
    /\ UNCHANGED <<tenants, users, invitations, sessions, issued, now, current_user,
                   legacy, conversations, settings>>
    /\ UNCHANGED config

\* the fresh_install branch in process p: create_tenant with the default
\* names, whose domain is None
StartupFreshInstall(p) ==
    /\ acc[p].pc = "startup"
    /\ acc[p].status = "fresh_install"
    /\ tenants' = Append(tenants, DefaultTenant)
    /\ users' = Append(users, [DefaultTenantAdmin EXCEPT !.tenant_id = Len(tenants) + 1])
    /\ acc' = [acc EXCEPT ![p] = Started]
    /\ ret' = [op |-> "run_migration_if_needed", proc |-> p,
               result |-> [kind |-> "true"]]
    /\ UNCHANGED <<invitations, sessions, issued, now, current_user,
                   legacy, conversations, settings>>
    /\ UNCHANGED config

\* the migrated branch in process p, and ensure_default_tenant after it: the
\* store has a tenant, nothing is written
StartupMigrated(p) ==
    /\ acc[p].pc = "startup"
    /\ acc[p].status = "migrated"
    /\ acc' = [acc EXCEPT ![p] = Started]
    /\ ret' = [op |-> "ensure_default_tenant", proc |-> p,
               result |-> [kind |-> "false"]]
    /\ UNCHANGED <<tenants, users, invitations, sessions, issued, now, current_user,
                   legacy, conversations, settings>>
    /\ UNCHANGED config

\* the needs_migration branch in process p: migrate_to_tenant_system up to its
\* loop over select(User); with a tenant in the store it reports skipped, the
\* run returns False and ensure_default_tenant finds the tenant
StartupMigrateBegin(p) ==
    /\ acc[p].pc = "startup"
    /\ acc[p].status = "needs_migration"
    /\ IF tenants # <<>>
       THEN /\ acc' = [acc EXCEPT ![p] = Started]
            /\ ret' = [op |-> "migrate_to_tenant_system", proc |-> p,
                       result |-> [kind |-> "skipped"]]
       ELSE /\ acc' = [acc EXCEPT ![p] =
                          [pc |-> "startup_commit",
                           users |-> [i \in 1..Len(legacy.users) |->
                                         MigratedUser(i, legacy.users[i],
                                                      Len(tenants) + 1, TRUE)]]]
            /\ ret' = [op |-> "migrate_begin", proc |-> p,
                       result |-> [kind |-> "open"]]
    /\ UNCHANGED <<tenants, users, invitations, sessions, issued, now, current_user,
                   legacy, conversations, settings>>
    /\ UNCHANGED config

\* a row with the primary key of a stored row
PrimaryKeyTaken(rows, pending) ==
    \E i \in 1..Len(rows), j \in 1..Len(pending) : rows[i].id = pending[j].id

\* the writes of the migration of process p reach the store: the users keep
\* their legacy ids, which are the primary key of tenantuser
StartupMigrateCommit(p) ==
    /\ acc[p].pc = "startup_commit"
    /\ acc' = [acc EXCEPT ![p] = Started]
    /\ IF PrimaryKeyTaken(users, acc[p].users)
       THEN /\ ret' = [op |-> "migrate_to_tenant_system", proc |-> p,
                       result |-> Raised("IntegrityError")]
            /\ UNCHANGED <<tenants, users>>
       ELSE /\ tenants' = Append(tenants, DefaultTenant)
            /\ users' = users \o [i \in 1..Len(acc[p].users) |->
                                    [acc[p].users[i] EXCEPT
                                        !.tenant_id = Len(tenants) + 1]]
            /\ ret' = [op |-> "migrate_to_tenant_system", proc |-> p,
                       result |-> [kind |-> "success"]]
    /\ UNCHANGED <<invitations, sessions, issued, now, current_user,
                   legacy, conversations, settings>>
    /\ UNCHANGED config

\* the accounts the second session of ensure_default_tenant adds: TenantUser
\* rows built without the admin argument, whose column default is False
SeededAdmin(tenant_id) ==
    [NewUser(sAdmin, eAdmin, "admin", tenant_id, "admin") EXCEPT !.admin = FALSE]

SeededUser(tenant_id) == NewUser(sUser, eUser, "user", tenant_id, "user")

\* ensure_default_tenant() up to the return of create_tenant, which has
\* committed the tenant and the first account with role admin
EnsureBegin ==
    /\ acc[1].pc = "idle"
    /\ IF tenants # <<>>
       THEN /\ ret' = [op |-> "ensure_default_tenant", result |-> [kind |-> "false"]]
            /\ UNCHANGED <<tenants, users, acc>>
       ELSE /\ tenants' = <<DefaultTenant>>
            /\ users' = users \o <<DefaultTenantAdmin>>
            /\ acc' = [acc EXCEPT ![1] = [pc |-> "seed_accounts",
                                          super_admin |-> Len(users) + 1]]
            /\ ret' = [op |-> "seed_create_tenant", result |-> [kind |-> "ok"]]
    /\ UNCHANGED <<invitations, sessions, issued, now, current_user,
                   legacy, conversations, settings>>
    /\ UNCHANGED config

\* the second session of ensure_default_tenant: the first account becomes
\* super_admin, the admin and the user are added, one commit
EnsureAccounts ==
    /\ acc[1].pc = "seed_accounts"
    /\ LET row1 == SeededAdmin(1)
           row2 == SeededUser(1)
       IN IF UserConstraintViolated(users, row1) \/ UserConstraintViolated(users, row2)
          THEN /\ ret' = [op |-> "ensure_default_tenant",
                          result |-> [kind |-> "none"]]
               /\ UNCHANGED users
          ELSE /\ users' = [users EXCEPT ![acc[1].super_admin].role = "super_admin"]
                              \o <<row1, row2>>
               /\ ret' = [op |-> "ensure_default_tenant",
                          result |-> [kind |-> "true"]]
    /\ acc' = [acc EXCEPT ![1] = IdleAcc]
    /\ UNCHANGED <<tenants, invitations, sessions, issued, now, current_user,
                   legacy, conversations, settings>>
    /\ UNCHANGED config

\* the process stops between the two sessions of ensure_default_tenant
StopInSeeding ==
    /\ acc[1].pc = "seed_accounts"
    /\ acc' = [acc EXCEPT ![1] = IdleAcc]
    /\ ret' = [op |-> "stopped"]
    /\ UNCHANGED <<tenants, users, invitations, sessions, issued, now, current_user,
                   legacy, conversations, settings>>
    /\ UNCHANGED config

\* invite_user(tenant_id, email, role, invited_by) in a run that sends at most
\* max invitations
InviteUserWithin(tenant_id, email, role, invited_by, max) ==
    /\ Len(invitations) < max
    /\ invitations' = Append(invitations,
                             NewInvitation(email, tenant_id, role, invited_by, now))
    /\ ret' = [op |-> "invite_user",
               result |-> [kind |-> "invitation", token |-> Len(invitations) + 1]]
    /\ UNCHANGED <<tenants, users, sessions, issued, now, current_user, acc,
                   legacy, conversations, settings>>
    /\ UNCHANGED config

----------------------------------------------------------------------------
(* config/tenant_config.py: the shared TenantSystemConfig *)

NoError == "none"

\* TenantSystemConfig.validate(): the message of the ValueError it raises
validate(c) ==
    IF c.password_min_length < 4
    THEN "Password minimum length must be at least 4"
    ELSE IF c.invitation_expiry_days < 1
    THEN "Invitation expiry must be at least 1 day"
    ELSE IF c.session_timeout_hours < 1
    THEN "Session timeout must be at least 1 hour"
    ELSE NoError

\* for key, value in kwargs.items(): if hasattr(config, key): setattr(...)
SetAttrs(c, kwargs) ==
    [key \in DOMAIN c |-> IF key \in DOMAIN kwargs THEN kwargs[key] ELSE c[key]]

\* get_tenant_config()
GetTenantConfig ==
    /\ ret' = [op |-> "get_tenant_config", result |-> [kind |-> "config"] @@ config]
    /\ UNCHANGED <<tenants, users, invitations, sessions, issued, now, current_user,
                   acc, legacy, conversations, settings, config>>

\* update_tenant_config(**kwargs): the attributes are set on the shared
\* object, then validate() runs
update_tenant_config(kwargs) ==
    /\ config' = SetAttrs(config, kwargs)
    /\ ret' = [op |-> "update_tenant_config", kwargs |-> kwargs,
               result |-> IF validate(config') = NoError
                          THEN [kind |-> "config"] @@ config'
                          ELSE [kind |-> "raised", error |-> "ValueError",
                                message |-> validate(config')]]
    /\ UNCHANGED <<tenants, users, invitations, sessions, issued, now, current_user,
                   acc, legacy, conversations, settings>>

\* the clock advances
Tick(step, max) ==
    /\ now + step <= max
    /\ now' = now + step
    /\ ret' = [op |-> "tick"]
    /\ UNCHANGED <<tenants, users, invitations, sessions, issued, current_user, acc,
                   legacy, conversations, settings>>
    /\ UNCHANGED config

----------------------------------------------------------------------------
(* Login against a live store: tenants, users, the tenant page, the clock *)

\* The tenant form is submitted with its domain box as loaded and a status.
SaveInputs ==
    {in \in [domain : {"", "acme.com"}, status : {"", "suspended"}] :
        /\ current_user.kind = "user"
        /\ in.domain = (IF tenants[current_user.tenant_id].domain = NullDomain
                        THEN "" ELSE tenants[current_user.tenant_id].domain)}

\* Acme is set up by its admin bob, Beta by another bob
TenantSetups ==
    {in \in [tenant : TenantInputs, admin : People] :
        /\ in.admin.role # "super_admin"
        /\ (in.tenant.name = "Acme") = (in.admin.role = "admin")}

NextAuth ==
    \/ \E in \in TenantSetups : CreateTenant(in.tenant.name, in.tenant.domain, in.admin)
    \/ \E tid \in TenantIds, p \in People : p.role # "admin" /\ CreateUser(tid, p)
    \/ \E u \in 0..Len(users) : DeactivateUser(u)
    \/ \E u \in 0..Len(users) : LoadUserContext(u)
    \/ \E in \in SaveInputs : SaveTenantSettings("", in.domain, in.status)
    \/ \E in \in LoginInputs :
           AuthenticateUser(in.identity, in.password, in.tenant_domain)

SpecAuth == Init /\ [][NextAuth]_vars

----------------------------------------------------------------------------
(* The session store over time: sessions are created, read and deleted while
   the clock advances *)

\* a session id presented by a caller: one that was handed out, or none
KnownSids == 0..Len(issued)

NextSession ==
    \/ \E in \in TenantSetups : CreateTenant(in.tenant.name, in.tenant.domain, in.admin)
    \/ \E u \in UserIds : CreateSession(u)
    \/ \E s \in KnownSids : GetSession(s)
    \/ \E s \in KnownSids : DeleteSession(s)
    \/ Tick(ClockStep, MaxClock)

SpecSession == Init /\ [][NextSession]_vars

----------------------------------------------------------------------------
(* The session store when a file's content is not what create_session wrote:
   cut short, missing a key, or rewritten by something else *)

CorruptKinds == {"unparseable", "no_expires", "bad_expires", "non_object"}

\* a file in the directory that create_session did not name: *.json
ForeignSid == 99

\* the content of a session file is replaced, or a foreign file appears
PlantCorrupt(session_id, kind) ==
    /\ session_id \in DOMAIN sessions \cup {ForeignSid}
    /\ sessions' = WithFile(sessions, session_id, [kind |-> kind])
    /\ ret' = [op |-> "corrupt", session_id |-> session_id, kind |-> kind]
    /\ UNCHANGED <<tenants, users, invitations, issued, now, current_user, acc,
                   legacy, conversations, settings>>
    /\ UNCHANGED config

NextCorrupt ==
    \/ \E in \in TenantSetups : CreateTenant(in.tenant.name, in.tenant.domain, in.admin)
    \/ \E u \in UserIds : CreateSession(u)
    \/ \E s \in KnownSids : GetSession(s)
    \/ \E s \in KnownSids : DeleteSession(s)
    \/ Tick(ClockStep, MaxClock)
    \/ \E s \in KnownSids \cup {ForeignSid}, k \in CorruptKinds : PlantCorrupt(s, k)

SpecCorrupt == Init /\ [][NextCorrupt]_vars

----------------------------------------------------------------------------
(* The session store when requests overlap: two create_session calls, reads
   and the restore scan of a starting process *)

Procs == {1, 2}

NextWrite ==
    \/ \E in \in TenantSetups : CreateTenant(in.tenant.name, in.tenant.domain, in.admin)
    \/ \E p \in Procs, u \in UserIds : CreateSessionOpen(p, u)
    \/ \E p \in Procs : CreateSessionWrite(p)
    \/ \E s \in KnownSids : GetSession(s)
    \/ RestoreUserSession
    \/ Tick(ClockStep, MaxClock)

SpecWrite == Init /\ [][NextWrite]_vars

----------------------------------------------------------------------------
(* Login, logout and the next process start *)

NextLogout ==
    \/ \E in \in TenantSetups : CreateTenant(in.tenant.name, in.tenant.domain, in.admin)
    \/ \E in \in LoginInputs :
           AuthenticateUser(in.identity, in.password, in.tenant_domain)
    \/ \E u \in UserIds : HandleLogout(u)
    \/ \E u \in UserIds : DeactivateUser(u)
    \/ RestoreUserSession
    \/ Tick(ClockStep, MaxClock)

SpecLogout == Init /\ [][NextLogout]_vars

----------------------------------------------------------------------------
(* Invitations: two requests accept concurrently while the clock advances *)

\* bob is invited as a user, amy as an admin
InviteInputs == {[email |-> eBob, role |-> "user"], [email |-> eAmy, role |-> "admin"]}
\* request 1 asks for BOB or amy, request 2 for amy or " bob "
AcceptInputs ==
    {in \in [proc : Procs, username : {sBOB, sAmy, sBobPadded}] :
        in.username # (IF in.proc = 1 THEN sBobPadded ELSE sBOB)}
Tokens == 0..Len(invitations)

NextInvite ==
    \/ \E in \in TenantSetups : CreateTenant(in.tenant.name, in.tenant.domain, in.admin)
    \/ \E tid \in TenantIds, in \in InviteInputs, by \in UserIds :
           users[by].tenant_id = tid /\ InviteUser(tid, in.email, in.role, by)
    \/ \E in \in AcceptInputs, token \in Tokens :
           AcceptBegin(in.proc, token, in.username, "pw123")
    \/ \E p \in Procs : AcceptCheck(p)
    \/ \E p \in Procs : AcceptCommit(p)
    \/ Tick(InviteClockStep, MaxInviteClock)

SpecInvite == Init /\ [][NextInvite]_vars

----------------------------------------------------------------------------
(* The start of the process and the migration engine, on a store that may  *)
(* hold single-tenant data                                                 *)

NextMigrate ==
    \/ \E make_first_user_admin \in BOOLEAN, foreign_keys \in BOOLEAN :
          MigrateToTenantSystem(make_first_user_admin, foreign_keys)
    \/ MigrateUsers
    \/ MigrateConversations
    \/ MigrateSettings
    \/ MigrateCommit
    \/ StopInMigration
    \/ \E foreign_keys \in BOOLEAN : RunMigrationIfNeeded(foreign_keys)
    \/ EnsureDefaultTenant

SpecMigrate == InitLegacy /\ [][NextMigrate]_vars

----------------------------------------------------------------------------
(* Authorization checks on a store with tenants and users *)

NextAuthorize ==
    \/ \E in \in TenantSetups : CreateTenant(in.tenant.name, in.tenant.domain, in.admin)
    \/ \E c \in UserContexts : RequireAuth(c)
    \/ \E c \in UserContexts : RequireAdmin(c)
    \/ \E c \in UserContexts : IsSuperAdmin(c)
    \/ \E c \in UserContexts, target \in 0..Len(users) + 1 : CanManageUser(c, target)

SpecAuthorize == Init /\ [][NextAuthorize]_vars

----------------------------------------------------------------------------
(* The tenant page while users and tenants are changed behind it *)

\* the status box of the settings form: left alone, or a status
PageStatusInputs == {"", "suspended", "inactive"}

NextPage ==
    \/ \E in \in TenantSetups : CreateTenant(in.tenant.name, in.tenant.domain, in.admin)
    \/ \E u \in 0..Len(users) : LoadUserContext(u)
    \/ \E u \in 0..Len(users) : DeactivateUser(u)
    \/ \E u \in UserIds, role \in {"user", "admin"} : UpdateUserRole(u, role)
    \/ \E p \in People : AddUser(p)
    \/ \E in \in InviteInputs : SendInvitation(in.email, in.role)
    \/ \E status \in PageStatusInputs : SaveTenantSettings("", "", status)

SpecPage == Init /\ [][NextPage]_vars

----------------------------------------------------------------------------
(* Reading a user's record while the record and its tenant change *)

NextRecord ==
    \/ \E in \in TenantSetups : CreateTenant(in.tenant.name, in.tenant.domain, in.admin)
    \/ \E u \in 0..Len(users) : LoadUserContext(u)
    \/ \E u \in UserIds : DeactivateUser(u)
    \/ \E u \in UserIds : UpdateUserRole(u, "user")
    \/ \E status \in PageStatusInputs : SaveTenantSettings("", "", status)
    \/ \E u \in 0..Len(users) : GetUserById(u)

SpecRecord == Init /\ [][NextRecord]_vars

----------------------------------------------------------------------------
(* Tenants and users are created, with and without the admin's name *)

\* create_tenant(name, domain) called without admin_username
Nameless == [username |-> NoneText, email |-> eAmy, password |-> "pw123",
             role |-> "admin"]

NextTenant ==
    \/ \E t \in TenantInputs, p \in People \cup {Nameless} :
          CreateTenant(t.name, t.domain, p)
    \/ \E tid \in TenantIds, p \in People : CreateUser(tid, p)
    \/ \E u \in UserIds : DeactivateUser(u)

SpecTenant == Init /\ [][NextTenant]_vars

----------------------------------------------------------------------------
(* Every way a tenant or a user row comes into the store *)

\* a store whose single-tenant tables hold users only
InitStore ==
    /\ InitLegacy
    /\ legacy.conversations = <<>>
    /\ legacy.settings = <<>>

NextStore ==
    \/ \E foreign_keys \in BOOLEAN : RunMigrationIfNeeded(foreign_keys)
    \/ MigrateUsers
    \/ MigrateConversations
    \/ MigrateSettings
    \/ MigrateCommit
    \/ EnsureDefaultTenant
    \/ SeedDefaultTenant
    \/ \E in \in TenantSetups : CreateTenant(in.tenant.name, in.tenant.domain, in.admin)
    \/ \E p \in People : p.role # "admin" /\ tenants # <<>> /\ CreateUser(1, p)
    \/ users # <<>> /\ InviteUser(users[1].tenant_id, eAmy, "user", 1)
    \/ \E token \in 1..Len(invitations) : AcceptBegin(2, token, sBOB, "pw123")
    \/ AcceptCheck(2)
    \/ AcceptCommit(2)

SpecStore == InitStore /\ [][NextStore]_vars

----------------------------------------------------------------------------
(* Login next to a session directory that holds files of any content *)

NextLogin ==
    \/ \E in \in TenantSetups : CreateTenant(in.tenant.name, in.tenant.domain, in.admin)
    \/ \E in \in LoginInputs :
           AuthenticateUser(in.identity, in.password, in.tenant_domain)
    \/ \E s \in KnownSids \cup {ForeignSid}, k \in CorruptKinds : PlantCorrupt(s, k)
    \/ Tick(ClockStep, MaxClock)

SpecLogin == Init /\ [][NextLogin]_vars

----------------------------------------------------------------------------
(* The session store over several logins: older records are still in the
   directory, expired or not, when create_session scans it *)

MaxStored == 2

NextCleanup ==
    \/ \E in \in TenantSetups :
           tenants = <<>> /\ CreateTenant(in.tenant.name, in.tenant.domain, in.admin)
    \/ \E u \in UserIds : CreateSessionWithin(u, MaxStored)
    \/ \E s \in KnownSids : GetSession(s)
    \/ \E s \in KnownSids : DeleteSession(s)
    \/ Tick(ClockStep, MaxClock)

SpecCleanup == Init /\ [][NextCleanup]_vars

----------------------------------------------------------------------------
(* The tenant page used from two browsers: browser p is logged in as user p *)

NextShared ==
    \/ \E in \in TenantSetups : CreateTenant(in.tenant.name, in.tenant.domain, in.admin)
    \/ \E tid \in TenantIds, p \in People : p.role # "admin" /\ CreateUser(tid, p)
    \/ \E p \in Procs : p \in UserIds /\ PageLoad(p, p)
    \/ \E p \in Procs, person \in People : PageAddUser(p, person)
    \/ \E p \in Procs, in \in InviteInputs : PageSendInvitation(p, in.email, in.role)
    \/ \E p \in Procs : PageSaveSettings(p, "Renamed", "", "")

SpecShared == Init /\ [][NextShared]_vars

----------------------------------------------------------------------------
(* Two processes start on the same store *)

NextStartup ==
    \/ \E p \in Procs : StartupStatus(p)
    \/ \E p \in Procs : StartupFreshInstall(p)
    \/ \E p \in Procs : StartupMigrated(p)
    \/ \E p \in Procs : StartupMigrateBegin(p)
    \/ \E p \in Procs : StartupMigrateCommit(p)

SpecStartup == InitStore /\ [][NextStartup]_vars

----------------------------------------------------------------------------
(* Default-tenant seeding, session by session, next to the service calls *)

NextSeed ==
    \/ EnsureBegin
    \/ EnsureAccounts
    \/ StopInSeeding
    \/ \E in \in TenantSetups : CreateTenant(in.tenant.name, in.tenant.domain, in.admin)
    \/ \E tid \in TenantIds, p \in People : CreateUser(tid, p)
    \/ \E u \in UserIds : DeactivateUser(u)
    \/ \E u \in 0..Len(users) : LoadUserContext(u)

SpecSeed == Init /\ [][NextSeed]_vars

----------------------------------------------------------------------------
(* The app restores a session while users are deactivated, tenants suspended
   and session files damaged *)

NextRestore ==
    \/ \E in \in TenantSetups :
           /\ tenants = <<>>
           /\ in.tenant.name = "Acme"
           /\ CreateTenant(in.tenant.name, in.tenant.domain, in.admin)
    \/ \E p \in People : p.role = "super_admin" /\ tenants # <<>> /\ CreateUser(1, p)
    \/ \E u \in UserIds : CreateSessionWithin(u, MaxStored)
    \/ \E u \in UserIds : DeactivateUser(u)
    \/ users # <<>> /\ LoadUserContext(1)
    \/ SaveTenantSettings("", "", "suspended")
    \/ \E s \in KnownSids, k \in {"unparseable", "non_object"} : PlantCorrupt(s, k)
    \/ Tick(ClockStep, MaxClock)
    \/ RestoreUserSession

SpecRestore == Init /\ [][NextRestore]_vars

----------------------------------------------------------------------------
(* Several invitations for one address, accepted from two requests *)

MaxPending == 2

NextPending ==
    \/ \E in \in TenantSetups :
           /\ tenants = <<>>
           /\ in.tenant.name = "Acme"
           /\ CreateTenant(in.tenant.name, in.tenant.domain, in.admin)
    \/ \E in \in InviteInputs :
           users # <<>> /\ InviteUserWithin(1, in.email, in.role, 1, MaxPending)
    \/ \E p \in Procs, token \in 1..Len(invitations) :
           AcceptBegin(p, token, IF p = 1 THEN sAmy ELSE sBobPadded, "pw123")
    \/ \E p \in Procs : AcceptCheck(p)
    \/ \E p \in Procs : AcceptCommit(p)

SpecPending == Init /\ [][NextPending]_vars

----------------------------------------------------------------------------
(* The page's role box: add user, send invitation and its acceptance, beside
   the two operations that do set the super_admin role *)

\* the role dropdown's value, or any other string a request carries
RoleInputs == {"user", "admin", "super_admin"}

NextRoles ==
    \/ \E in \in TenantSetups :
          /\ tenants = <<>>
          /\ in.tenant.name = "Acme"
          /\ CreateTenant(in.tenant.name, in.tenant.domain, in.admin)
    \/ SeedDefaultTenant
    \/ users # <<>> /\ LoadUserContext(1)
    \/ \E person \in People : AddUser(person)
    \/ \E role \in RoleInputs : SendInvitation(eAmy, role)
    \/ \E token \in 1..Len(invitations) : AcceptBegin(1, token, sAmy, "pw123")
    \/ AcceptCheck(1)
    \/ AcceptCommit(1)
    \/ \E u \in UserIds, role \in UserRole : UpdateUserRole(u, role)

SpecRoles == Init /\ [][NextRoles]_vars

----------------------------------------------------------------------------
(* Configuration updates *)

ConfigValues == {0, 3, 4, 30}

\* keyword arguments: up to two of the validated fields, or a name the
\* dataclass does not have
ConfigKwargs ==
    UNION {[keys -> ConfigValues] :
              keys \in {k \in SUBSET (DOMAIN DEFAULT_TENANT_CONFIG \cup {"no_such_field"}) :
                           Cardinality(k) \in {1, 2}}}

NextConfig ==
    \/ \E kwargs \in ConfigKwargs : update_tenant_config(kwargs)
    \/ GetTenantConfig

SpecConfig == Init /\ [][NextConfig]_vars

----------------------------------------------------------------------------
(* Every operation that writes a TenantUser's role or its legacy admin flag *)

NextFlags ==
    \/ \E foreign_keys \in BOOLEAN : RunMigrationIfNeeded(foreign_keys)
    \/ MigrateUsers
    \/ MigrateConversations
    \/ MigrateSettings
    \/ MigrateCommit
    \/ EnsureDefaultTenant
    \/ SeedDefaultTenant
    \/ \E in \in TenantSetups :
          /\ tenants = <<>>
          /\ in.tenant.name = "Acme"
          /\ CreateTenant(in.tenant.name, in.tenant.domain, in.admin)
    \/ \E p \in People : p.role # "admin" /\ tenants # <<>> /\ CreateUser(1, p)
    \/ \E in \in InviteInputs :
          users # <<>> /\ InviteUser(users[1].tenant_id, in.email, in.role, 1)
    \/ \E token \in 1..Len(invitations) : AcceptBegin(2, token, sAmy, "pw123")
    \/ AcceptCheck(2)
    \/ AcceptCommit(2)
    \/ \E role \in UserRole : users # <<>> /\ UpdateUserRole(1, role)

SpecFlags == InitStore /\ [][NextFlags]_vars

----------------------------------------------------------------------------
(* Login: what the contract calls a matching triple *)

Unset(tenant_domain) == tenant_domain \in {NullDomain, ""}

\* (identity, password, tenant_domain) matches user U
ValidLogin(U, identity, password, tenant_domain) ==
    /\ users[U].is_active
    /\ tenants[users[U].tenant_id].status = "active"
    /\ \/ Lower(identity) = Lower(users[U].username)
       \/ identity = users[U].email
    /\ hash_password(password) = users[U].password
    /\ \/ Unset(tenant_domain)
       \/ tenant_domain = tenants[users[U].tenant_id].domain

NewSessions == (DOMAIN sessions') \ (DOMAIN sessions)

\* C1: every authenticate_user call whose triple matches an active user U of an
\* active tenant returns an AuthUser for U, with is_admin true exactly for the
\* stored roles admin and super_admin, and adds exactly one session record,
\* which carries U's id.
C1_ValidLoginSucceeds ==
    [][ret'.op = "authenticate_user" =>
         \A U \in UserIds :
            ValidLogin(U, ret'.identity, ret'.password, ret'.tenant_domain) =>
               /\ ret'.result.kind = "user"
               /\ ret'.result.id = U
               /\ is_admin(ret'.result) <=> users[U].role \in {"admin", "super_admin"}
               /\ NewSessions = {ret'.result.session_id}
               /\ sessions'[ret'.result.session_id].user_id = U]_vars

\* the identity as the login form hands it on: trimmed, lower-cased
Typed(identity) == Strip(Lower(identity))

\* one of the five causes rules user U out
RuledOut(U, identity, password, tenant_domain) ==
    \/ hash_password(password) # users[U].password
    \/ /\ Typed(identity) # Lower(users[U].username)
       /\ Typed(identity) # users[U].email
    \/ ~users[U].is_active
    \/ tenants[users[U].tenant_id].status # "active"
    \/ ~Unset(tenant_domain) /\ tenant_domain # tenants[users[U].tenant_id].domain

----------------------------------------------------------------------------
(* Invitations: what the contract says about accepting them *)

\* the users whose row was created by accepting invitation i
CreatedFrom(i) == {u \in UserIds : users[u].via = i}

InvitationIds == 1..Len(invitations)

\* C3: whatever the number and interleaving of accept_invitation calls on a
\* token, at most one TenantUser is ever created from that invitation.
C3_AtMostOneUserPerInvitation ==
    \A i \in InvitationIds : Cardinality(CreatedFrom(i)) <= 1

\* two requests had both read the invitation before either committed: one
\* created the user, the other's commit was refused
C3_Witness ==
    /\ ret.op = "accept_invitation"
    /\ ret.result.kind = "raised"
    /\ CreatedFrom(ret.token) # {}

\* the desired username is free in the tenant
UsernameFree(tenant_id, username) ==
    \A u \in UserIds :
        users[u].tenant_id = tenant_id => users[u].username_lower # Lower(username)

\* C4: of the accept_invitation calls racing on a fresh invitation with free
\* usernames, the one that finds the invitation already consumed returns none;
\* no call ends with a raised storage error.
C4_LosersReturnNone ==
    [][(/\ ret'.op = "accept_invitation"
        /\ ret'.token \in InvitationIds
        /\ UsernameFree(invitations[ret'.token].tenant_id, ret'.username)) =>
           /\ ret'.result.kind # "raised"
           /\ invitations[ret'.token].is_used => ret'.result = NoUser]_vars

\* C5: in every committed state an invitation is used exactly when accepted_at
\* is set and the user created by its acceptance (same tenant, same email)
\* exists; an unused invitation has no such user.
C5_UsedIffUserExists ==
    \A i \in InvitationIds :
        LET created == {u \in CreatedFrom(i) :
                           /\ users[u].tenant_id = invitations[i].tenant_id
                           /\ users[u].email = invitations[i].email}
        IN /\ invitations[i].is_used <=>
                 (invitations[i].accepted_at # NullTime /\ created # {})
           /\ ~invitations[i].is_used => CreatedFrom(i) = {}

\* an invitation has been accepted while another request was still in flight
C5_Witness ==
    \E i \in InvitationIds, p \in Procs :
        /\ invitations[i].is_used
        /\ CreatedFrom(i) # {}
        /\ acc[p].pc = "commit"
        /\ acc[p].token = i

\* C6: a call made on a token whose expires_at is earlier than the current
\* time returns none at once, creates no user and leaves the invitation as it
\* is; no call gets past the invitation query once the invitation has expired.
C6_ExpiredNeverAccepted ==
    [][/\ \A p \in Procs :
            (acc[p].pc = "idle" /\ acc'[p].pc # "idle") =>
               ~(invitations[acc'[p].token].expires_at < now)
       /\ (/\ ret'.op = "accept_invitation"
           /\ acc[ret'.proc].pc = "idle"
           /\ ret'.token \in InvitationIds
           /\ invitations[ret'.token].expires_at < now) =>
              /\ ret'.result = NoUser
              /\ users' = users
              /\ invitations' = invitations
              /\ acc' = acc]_vars

\* an unused invitation was presented after its expiry and the call returned none
C6_Witness ==
    /\ ret.op = "accept_invitation"
    /\ ret.result = NoUser
    /\ ret.token \in InvitationIds
    /\ ~invitations[ret.token].is_used
    /\ invitations[ret.token].expires_at < now
    /\ UsernameFree(invitations[ret.token].tenant_id, ret.username)

\* the users the tenant had when request p made its call
UsersAtCall(p) == IF acc[p].pc = "idle" THEN UserIds ELSE 1..acc[p].nusers

\* C7: a call returns none, creates no user and leaves the invitation as it was
\* (a pending one stays pending: is_used false, accepted_at unset) when its
\* token is unknown or already used, or when the invitation's tenant already
\* had a user with the desired username (compared case-insensitively) or with
\* the invitation's email.
C7_RefusedAcceptChangesNothing ==
    [][ret'.op = "accept_invitation" =>
         LET p == ret'.proc
             token == ret'.token
             known == token \in InvitationIds
             used == known /\ acc[p].pc = "idle" /\ invitations[token].is_used
             taken == /\ known
                      /\ \E u \in UsersAtCall(p) :
                            /\ users[u].tenant_id = invitations[token].tenant_id
                            /\ \/ users[u].username_lower = Lower(ret'.username)
                               \/ users[u].email = invitations[token].email
         IN (~known \/ used \/ taken) =>
               /\ ret'.result = NoUser
               /\ users' = users
               /\ invitations' = invitations
               /\ (known /\ ~invitations[token].is_used) =>
                     /\ ~invitations'[token].is_used
                     /\ invitations'[token].accepted_at = NullTime]_vars

\* a live invitation was refused because the tenant has the username in
\* another letter case, the email being free
C7_Witness ==
    /\ ret.op = "accept_invitation"
    /\ ret.result = NoUser
    /\ ret.token \in InvitationIds
    /\ ~invitations[ret.token].is_used
    /\ invitations[ret.token].expires_at > now
    /\ \A u \in UserIds :
          users[u].tenant_id = invitations[ret.token].tenant_id =>
             /\ users[u].email # invitations[ret.token].email
             /\ users[u].username # ret.username
    /\ \E u \in UserIds :
          /\ users[u].tenant_id = invitations[ret.token].tenant_id
          /\ users[u].username_lower = Lower(ret.username)

----------------------------------------------------------------------------
(* Sessions over time *)

\* C9: a session created for user u reads back with user_id = u while the clock
\* is before its expires_at (and nobody deleted it); once the clock has passed
\* expires_at every read returns none; and an id for which get_session has
\* returned none never reads back again.
C9_SessionRoundTrip ==
    [][(ret'.op = "get_session" /\ ret'.session_id \in 1..Len(issued)) =>
         LET sid == ret'.session_id
             expires_at == issued[sid].created_at + SessionTimeoutHours
         IN /\ (now < expires_at /\ ~issued[sid].deleted) =>
                  /\ ret'.result.kind = "record"
                  /\ ret'.result.user_id = issued[sid].user_id
            /\ now > expires_at => ret'.result = NoUser
            /\ issued[sid].refused => ret'.result = NoUser]_vars

\* a session that had been read back successfully was read after its expiry,
\* without any logout, and the read returned none
C9_Witness ==
    /\ ret.op = "get_session"
    /\ ret.session_id \in 1..Len(issued)
    /\ ret.result = NoUser
    /\ issued[ret.session_id].served
    /\ ~issued[ret.session_id].deleted
    /\ now > issued[ret.session_id].created_at + SessionTimeoutHours

\* C10: get_session never raises, and when the record is absent, expired or
\* corrupt (whatever the kind of corrupt content) it returns none and the
\* record is gone from the store afterwards.
C10_CorruptReadsAsAbsent ==
    [][ret'.op = "get_session" =>
         LET sid == ret'.session_id
             absent == sid = EmptySid \/ sid \notin DOMAIN sessions
             corrupt == ~absent /\ sessions[sid].kind \in CorruptKinds
             expired == ~absent /\ ~corrupt /\ now > sessions[sid].expires_at
         IN /\ ret'.result.kind # "raised"
            /\ (absent \/ expired \/ corrupt) =>
                  /\ ret'.result = NoUser
                  /\ sid \notin DOMAIN sessions']_vars

----------------------------------------------------------------------------
(* Sessions under concurrency, corruption and logout *)

\* C11: a session being created is never deleted as corrupt by a concurrent
\* read or scan: every create_session that returns an id leaves a complete
\* record under that id.
C11_WriteIsAtomic ==
    [][/\ \A p \in Procs :
            acc[p].pc = "write" => acc[p].sid \in DOMAIN sessions'
       /\ (ret'.op = "create_session" /\ ret'.result.kind = "session") =>
             /\ ret'.result.session_id \in DOMAIN sessions'
             /\ sessions'[ret'.result.session_id].kind = "record"]_vars

\* C12: a corrupt record X does not affect other sessions: create_session
\* still returns a readable session, and get_session / delete_session on
\* another id leave every other valid unexpired record as it is.
C12_CorruptRecordIsolated ==
    [][/\ ret'.op = "create_session" =>
             /\ ret'.result.kind = "session"
             /\ sessions'[ret'.result.session_id].kind = "record"
       /\ ret'.op \in {"get_session", "delete_session"} =>
             \A i \in DOMAIN sessions :
                (/\ i # ret'.session_id
                 /\ sessions[i].kind = "record"
                 /\ ~IsExpired(sessions[i], now)) =>
                    (i \in DOMAIN sessions' /\ sessions'[i] = sessions[i])]_vars

\* C13: once a user has logged out, session restoration does not return that
\* user's id from the session record of the login before the logout.
C13_LogoutEndsSession ==
    [][(ret'.op = "restore_user_session" /\ ret'.result.kind = "user_id") =>
          ~issued[ret'.result.session_id].logout]_vars

----------------------------------------------------------------------------
(* Migration *)

\* the call that just returned is a migration that reported success
MigrationSucceeded(r) ==
    /\ r.op = "migrate_to_tenant_system"
    /\ "status" \in DOMAIN r.result
    /\ r.result.status = "success"

\* the call that just returned is a migration that raised
MigrationFailed(r) ==
    /\ r.op = "migrate_to_tenant_system"
    /\ "error" \in DOMAIN r.result

\* C14: a run of the migration that directly follows another run on the same
\* legacy data returns status skipped and changes no row, and the store then
\* holds exactly one tenant and one migrated row per legacy row.
C14_SecondRunSkipped ==
    [][(/\ ret'.op = "migrate_to_tenant_system"
        /\ IF acc[1].pc = "idle" THEN ret.op = "migrate_to_tenant_system"
                                 ELSE acc[1].rerun) =>
          /\ "status" \in DOMAIN ret'.result
          /\ ret'.result.status = "skipped"
          /\ UNCHANGED <<tenants, users, conversations, settings>>
          /\ Len(tenants') = 1
          /\ Len(users') = Len(legacy.users)
          /\ Len(conversations') = Len(legacy.conversations)
          /\ Len(settings') = Len(legacy.settings)]_vars

\* the rows of a table that belong to tenant tid
InTenant(rows, tid) == {j \in 1..Len(rows) : rows[j].tenant_id = tid}

\* C15: when migrate_to_tenant_system returns status success, the default
\* tenant holds as many users, conversations and settings as the single-tenant
\* tables do, and verify_migration reports match = true for all three.
C15_CountsMatchAfterSuccess ==
    [][MigrationSucceeded(ret') =>
          LET v == verify_migration(legacy', tenants', users', conversations', settings')
          IN /\ Cardinality(InTenant(users', 1)) = Len(legacy.users)
             /\ Cardinality(InTenant(conversations', 1)) = Len(legacy.conversations)
             /\ Cardinality(InTenant(settings', 1)) = Len(legacy.settings)
             /\ v.users.match /\ v.conversations.match /\ v.settings.match
             /\ ret'.result.migrated = [users |-> Len(legacy.users),
                                        conversations |-> Len(legacy.conversations),
                                        settings |-> Len(legacy.settings)]]_vars

C15_Witness ==
    /\ MigrationSucceeded(ret)
    /\ Len(users) = MaxLegacyUsers
    /\ Len(conversations) = MaxLegacyRows
    /\ Len(settings) = MaxLegacyRows
    /\ verify_migration(legacy, tenants, users, conversations, settings).users.match

\* one tenant with exactly the three seeded accounts
SeededAccounts(T, U) ==
    /\ Len(T) = 1
    /\ Len(U) = 3
    /\ \A role \in UserRole :
          Cardinality({u \in 1..Len(U) : U[u].role = role /\ U[u].tenant_id = 1}) = 1

\* C16: when the process starts on a store without legacy users and without
\* tenants, the start sequence ends with one default tenant that holds three
\* accounts, one super_admin, one admin and one user.
C16_FreshInstallSeedsThree ==
    [][(/\ acc[1].pc = "idle"
        /\ get_migration_status = "fresh_install"
        /\ ret'.op = "run_migration_if_needed"
        /\ acc'[1].pc = "idle") => SeededAccounts(tenants', users')]_vars

\* the store holds the tenant and a migrated row for every legacy row
FullyMigrated(T, U, C, S) ==
    /\ T = <<DefaultTenant>>
    /\ Len(U) = Len(legacy.users)
    /\ Len(C) = Len(legacy.conversations)
    /\ Len(S) = Len(legacy.settings)
    /\ \A i \in 1..Len(U) : U[i].id = legacy.users[i].id
    /\ \A j \in 1..Len(C) : C[j].id = legacy.conversations[j].id
    /\ \A j \in 1..Len(S) : S[j].id = legacy.settings[j].id

\* C17: every step of migrate_to_tenant_system, the process stopping inside it
\* included, either leaves the committed tables as they were and reports no
\* success, or reports success and leaves the tenant with every migrated row.
C17_MigrationAllOrNothing ==
    [][(acc[1].pc \in InMigration \/ ret'.op \in {"migrate_begin", "migrate_to_tenant_system"}) =>
          \/ /\ ~MigrationSucceeded(ret')
             /\ UNCHANGED <<tenants, users, conversations, settings>>
          \/ /\ MigrationSucceeded(ret')
             /\ tenants = <<>> /\ users = <<>> /\ conversations = <<>> /\ settings = <<>>
             /\ FullyMigrated(tenants', users', conversations', settings')]_vars

C17_Witness ==
    /\ MigrationFailed(ret)
    /\ legacy.users # <<>>
    /\ legacy.conversations = <<>>
    /\ legacy.settings # <<>>
    /\ tenants = <<>> /\ users = <<>> /\ conversations = <<>> /\ settings = <<>>

\* C18: after a successful migration every legacy user has a tenant user with
\* the same id, username, username_lower and password hash in the default
\* tenant, and every tenant user carries the id of a legacy user.
C18_UsersPreserved ==
    [][MigrationSucceeded(ret') =>
          /\ \A i \in 1..Len(legacy.users) :
                \E u \in 1..Len(users') :
                   /\ users'[u].id = legacy.users[i].id
                   /\ users'[u].username = legacy.users[i].username
                   /\ users'[u].username_lower = legacy.users[i].username_lower
                   /\ users'[u].password = legacy.users[i].password
                   /\ users'[u].tenant_id \in 1..Len(tenants')
                   /\ tenants'[users'[u].tenant_id] = DefaultTenant
          /\ \A u \in 1..Len(users') :
                \E i \in 1..Len(legacy.users) : users'[u].id = legacy.users[i].id]_vars

C18_Witness ==
    /\ MigrationSucceeded(ret)
    /\ Len(legacy.users) = MaxLegacyUsers
    /\ \A i \in 1..Len(legacy.users) : users[i].id = legacy.users[i].id
    /\ users[1].username # users[1].username_lower

\* C19: after a successful migration a migrated user is admin exactly when it
\* is the first legacy user and make_first_user_admin is set, or its legacy
\* admin flag is set, and user otherwise; no migrated user is super_admin.
C19_RoleDerivation ==
    [][MigrationSucceeded(ret') =>
          \A i \in 1..Len(legacy.users) :
             \A u \in 1..Len(users') :
                users'[u].id = legacy.users[i].id =>
                   /\ users'[u].role # "super_admin"
                   /\ users'[u].role =
                         IF (i = 1 /\ ret'.make_first_user_admin) \/ legacy.users[i].admin
                         THEN "admin" ELSE "user"]_vars

C19_Witness ==
    /\ MigrationSucceeded(ret)
    /\ ret.make_first_user_admin
    /\ Len(users) = 2
    /\ ~legacy.users[1].admin /\ ~legacy.users[2].admin
    /\ users[1].role = "admin" /\ users[2].role = "user"

\* the owner of a legacy row, as the tenant tables store it
OwnerOf(row) == IF row.user = EmptyOwner THEN NullId ELSE row.user

\* C20: every run of the migration on a store without tenants ends with status
\* success and leaves, for each legacy conversation and settings row, a row
\* with the same id and the same owner; a migrated settings row is tenant-wide
\* exactly when it has no owner.
C20_EveryLegacyStoreMigrates ==
    [][(acc[1].pc \in InMigration /\ ret'.op = "migrate_to_tenant_system") =>
          /\ MigrationSucceeded(ret')
          /\ \A j \in 1..Len(legacy.conversations) :
                \E c \in 1..Len(conversations') :
                   /\ conversations'[c].id = legacy.conversations[j].id
                   /\ conversations'[c].user_id = OwnerOf(legacy.conversations[j])
          /\ \A j \in 1..Len(legacy.settings) :
                \E s \in 1..Len(settings') :
                   /\ settings'[s].id = legacy.settings[j].id
                   /\ settings'[s].user_id = OwnerOf(legacy.settings[j])
                   /\ settings'[s].is_tenant_wide = (legacy.settings[j].user = EmptyOwner)]_vars

----------------------------------------------------------------------------
(* Authorization *)

\* C21: a context with role user never passes require_admin; an active context
\* with role admin or super_admin always does; is_super_admin holds only for
\* role super_admin; none and inactive contexts never pass require_admin.
C21_RoleOrdering ==
    [][LET c == ret'.user_context
       IN /\ ret'.op = "require_admin" =>
               /\ (c.kind = "user" /\ c.role = "user") => ~ret'.result
               /\ (c.kind = "user" /\ c.is_active /\ c.role \in {"admin", "super_admin"})
                     => ret'.result
               /\ (c.kind = "none" \/ ~c.is_active) => ~ret'.result
          /\ ret'.op = "is_super_admin" => (ret'.result <=> c.role = "super_admin")]_vars

C21_Witness ==
    /\ ret.op = "require_admin"
    /\ ret.user_context.kind = "user"
    /\ ret.user_context.role = "super_admin"
    /\ ~ret.user_context.is_active
    /\ ~ret.result

\* C22: can_manage_user is true exactly when the actor is a context, active,
\* admin or super_admin, the target user is stored and its stored tenant_id is
\* the actor's; a target of another tenant or a missing one gives false.
C22_ManageOnlyOwnTenant ==
    [][ret'.op = "can_manage_user" =>
          LET actor == ret'.user_context
              target == ret'.target_user_id
          IN ret'.result <=>
                /\ actor.kind = "user"
                /\ actor.is_active
                /\ actor.role \in {"admin", "super_admin"}
                /\ target \in 1..Len(users)
                /\ users[target].tenant_id = actor.tenant_id]_vars

C22_Witness ==
    /\ ret.op = "can_manage_user"
    /\ ret.user_context.kind = "user"
    /\ ret.user_context.role = "super_admin"
    /\ ret.user_context.is_active
    /\ ret.target_user_id \in UserIds
    /\ users[ret.target_user_id].tenant_id # ret.user_context.tenant_id
    /\ ~ret.result

PrivilegedActions == {"add_user", "send_invitation", "save_tenant_settings"}

\* C23: an action of the tenant page that needs admin rights goes through only
\* if the record of the acting user, as stored when the action is decided, is
\* active, admin or super_admin and in an active tenant.
C23_DecidedFromStoredRecord ==
    [][(ret'.op \in PrivilegedActions /\ ret'.result.kind # "denied") =>
          /\ current_user.kind = "user"
          /\ get_user_by_id(current_user.id).kind = "user"
          /\ is_admin(get_user_by_id(current_user.id))]_vars

\* C24: get_user_by_id returns a user exactly when the id is stored, the user is
\* active and its tenant is active, with role and tenant as stored at the call;
\* for a deactivated user or a tenant that is not active it returns none.
C24_UserRevalidated ==
    [][ret'.op = "get_user_by_id" =>
          LET id == ret'.user_id
              valid == /\ id \in 1..Len(users)
                       /\ users[id].is_active
                       /\ tenants[users[id].tenant_id].status = "active"
          IN /\ valid <=> ret'.result.kind = "user"
             /\ ~valid => ret'.result = NoUser
             /\ valid => /\ ret'.result.id = id
                         /\ ret'.result.role = users[id].role
                         /\ ret'.result.tenant_id = users[id].tenant_id
                         /\ ret'.result.tenant_name = tenants[users[id].tenant_id].name
                         /\ ret'.result.is_active]_vars

C24_Witness ==
    /\ ret.op = "get_user_by_id"
    /\ ret.user_id \in UserIds
    /\ users[ret.user_id].is_active
    /\ tenants[users[ret.user_id].tenant_id].status = "suspended"
    /\ ret.result = NoUser

----------------------------------------------------------------------------
(* Storage: atomic units, uniqueness, failures *)

\* C25: a create_tenant call either stores the new tenant together with one
\* admin-role user of that tenant, or fails and stores neither; every stored
\* tenant has a user.
C25_TenantWithAdminOrNothing ==
    [][ret'.op = "create_tenant" =>
          /\ \/ /\ ret'.result.kind = "ok"
                /\ Len(tenants') = Len(tenants) + 1
                /\ SubSeq(tenants', 1, Len(tenants)) = tenants
                /\ Len(users') = Len(users) + 1
                /\ SubSeq(users', 1, Len(users)) = users
                /\ users'[Len(users')].tenant_id = Len(tenants')
                /\ users'[Len(users')].role = "admin"
             \/ /\ ret'.result.kind = "raised"
                /\ UNCHANGED <<tenants, users>>
          /\ \A tid \in 1..Len(tenants') :
                \E u \in 1..Len(users') : users'[u].tenant_id = tid]_vars

C25_Witness ==
    /\ ret.op = "create_tenant"
    /\ ret.result = Raised("AttributeError")
    /\ Len(tenants) = 1
    /\ Len(users) = 1

\* C26: no two users of one tenant have the same username or the same email,
\* and no two tenants have the same domain unless they have none.
C26_UniqueNamesAndDomains ==
    /\ \A u, v \in UserIds :
          (u # v /\ users[u].tenant_id = users[v].tenant_id) =>
             /\ users[u].username # users[v].username
             /\ users[u].email # users[v].email
    /\ \A s, t \in TenantIds :
          (s # t /\ tenants[s].domain # NullDomain /\ tenants[s].domain # "") =>
             tenants[s].domain # tenants[t].domain

\* a create_user was turned down by the constraint next to a migrated user
C26_Witness ==
    /\ ret.op = "create_user"
    /\ ret.result.kind = "raised"
    /\ legacy.users # <<>>
    /\ Len(tenants) = 1
    /\ Len(users) = Len(legacy.users)
    /\ users[1].id = legacy.users[1].id

\* user V is no candidate for the identity: neither its email, in any letter
\* case, nor its username
NoCandidate(V, identity) ==
    /\ Lower(users[V].email) # Lower(identity)
    /\ users[V].username_lower # Strip(Lower(identity))

\* C27: an authenticate_user call with exactly the stored email of an active
\* user of an active tenant and the correct password returns that user,
\* whatever the letter case of the stored email; and a call with a
\* tenant_domain never returns a user of a tenant with another domain.
C27_ExactEmailLogin ==
    [][ret'.op = "authenticate_user" =>
         /\ \A U \in UserIds :
               ( /\ users[U].is_active
                 /\ tenants[users[U].tenant_id].status = "active"
                 /\ ret'.identity = users[U].email
                 /\ verify_password(ret'.password, users[U].password)
                 /\ ~Truthy(ret'.tenant_domain)
                 /\ \A V \in UserIds \ {U} : NoCandidate(V, ret'.identity) ) =>
                  /\ ret'.result.kind = "user"
                  /\ ret'.result.id = U
         /\ (Truthy(ret'.tenant_domain) /\ ret'.result.kind = "user") =>
               tenants[users[ret'.result.id].tenant_id].domain = ret'.tenant_domain]_vars

\* the half of C27 about the tenant_domain filter
C27_DomainFilterHolds ==
    [][(ret'.op = "authenticate_user" /\ Truthy(ret'.tenant_domain)
          /\ ret'.result.kind = "user") =>
         tenants[users[ret'.result.id].tenant_id].domain = ret'.tenant_domain]_vars

\* C28: an authenticate_user call that does not return a user leaves every
\* stored last_login as it was and adds no session record; last_login changes
\* only in calls that return a user and leave that user's session record.
C28_LoginAtomic ==
    [][ret'.op = "authenticate_user" =>
         /\ ret'.result.kind # "user" =>
               /\ users' = users
               /\ DOMAIN sessions' \subseteq DOMAIN sessions
         /\ users' # users =>
               /\ ret'.result.kind = "user"
               /\ ret'.result.session_id \in DOMAIN sessions']_vars

\* the service functions that insert tenant and user rows
RowWriters == {"create_user", "create_tenant", "accept_invitation"}

\* C29: no call of create_user, create_tenant or accept_invitation ends with a
\* raised IntegrityError; a call that creates nothing returns a failure result
\* and leaves the stored tenants, users and invitations as they were.
C29_ConstraintFailureIsAResult ==
    [][ret'.op \in RowWriters =>
         /\ ~(ret'.result.kind = "raised" /\ ret'.result.error = "IntegrityError")
         /\ ret'.result.kind \notin {"ok", "user"} =>
               /\ tenants' = tenants
               /\ users' = users
               /\ invitations' = invitations]_vars

\* the half of C29 about the stored rows
C29_RefusedWriteStoresNothing ==
    [][(ret'.op \in RowWriters /\ ret'.result.kind = "raised") =>
         /\ tenants' = tenants
         /\ users' = users
         /\ invitations' = invitations]_vars

\* C30: a create_session call that returns hands out an id no record in the
\* store has, writes under it a record with expires_at = creation time +
\* SessionTimeoutHours, leaves no expired record in the store and leaves every
\* record that had not expired as it was.
C30_CreateSessionCleansExpiredOnly ==
    [][(ret'.op = "create_session" /\ ret'.result.kind = "session") =>
         LET sid == ret'.result.session_id
         IN /\ sid \notin DOMAIN sessions
            /\ sid \in DOMAIN sessions'
            /\ sessions'[sid].kind = "record"
            /\ sessions'[sid].user_id = ret'.user_id
            /\ sessions'[sid].created_at = now
            /\ sessions'[sid].expires_at = now + SessionTimeoutHours
            /\ \A i \in DOMAIN sessions' : ~(now > sessions'[i].expires_at)
            /\ \A i \in DOMAIN sessions :
                  ~(now > sessions[i].expires_at) =>
                     (i \in DOMAIN sessions' /\ sessions'[i] = sessions[i])]_vars

\* the second create_session found the first session's record expired and
\* unread, and removed it
C30_Witness ==
    /\ ret.op = "create_session"
    /\ ret.result.kind = "session"
    /\ ret.result.session_id = 2
    /\ DOMAIN sessions = {2}
    /\ ~issued[1].deleted
    /\ ~issued[1].refused
    /\ now > issued[1].created_at + SessionTimeoutHours

\* a create_session call kept a record that had not expired next to the new one
C30_KeptValidRecord ==
    /\ ret.op = "create_session"
    /\ ret.result.kind = "session"
    /\ DOMAIN sessions = {1, 2}
    /\ now > issued[1].created_at

----------------------------------------------------------------------------
(* Lookups, the tenant page, startup and configuration *)

\* C31: no two users of one tenant have the same username_lower, so the login
\* lookup by username within one tenant selects at most one user.
C31_LowerUsernameUniquePerTenant ==
    \A u, v \in UserIds :
        (u # v /\ users[u].tenant_id = users[v].tenant_id) =>
           users[u].username_lower # users[v].username_lower

PageActions == {"page_add_user", "page_send_invitation", "page_save_settings"}

\* C32: a tenant-page action is accepted only when the user who invoked it is
\* an admin, and what it writes (the new user, the new invitation, the changed
\* tenant row) belongs to the tenant of the user who invoked it.
C32_ActionsBelongToInvoker ==
    [][(ret'.op \in PageActions /\ ret'.result.kind \notin {"denied", "failed"}) =>
         LET by == ret'.by
         IN /\ get_user_by_id(by).kind = "user"
            /\ is_admin(get_user_by_id(by))
            /\ ret'.result.kind = "added" =>
                  users'[Len(users')].tenant_id = users[by].tenant_id
            /\ ret'.result.kind = "sent" =>
                  invitations'[Len(invitations')].tenant_id = users[by].tenant_id
            /\ ret'.result.kind = "saved" =>
                  \A t \in TenantIds \ {users[by].tenant_id} :
                      tenants'[t] = tenants[t]]_vars

\* C33: when both processes have finished the startup sequence, the store has
\* at most one tenant and no legacy user has been migrated twice.
C33_ConcurrentStartupOneTenant ==
    (\A p \in Procs : acc[p].pc = "started") =>
       /\ Len(tenants) <= 1
       /\ \A l \in 1..Len(legacy.users) :
             Cardinality({u \in UserIds : users[u].id = legacy.users[l].id}) <= 1

\* the half of C33 about the legacy rows
C33_NoRowMigratedTwice ==
    \A l \in 1..Len(legacy.users) :
        Cardinality({u \in UserIds : users[u].id = legacy.users[l].id}) <= 1

\* tenant t holds the three default accounts
HasDefaultAccounts(T, U, t) ==
    /\ \E u \in 1..Len(U) : /\ U[u].tenant_id = t
                            /\ U[u].username = sSuperAdmin
                            /\ U[u].role = "super_admin"
    /\ \E u \in 1..Len(U) : /\ U[u].tenant_id = t
                            /\ U[u].username = sAdmin
                            /\ U[u].role = "admin"
    /\ \E u \in 1..Len(U) : /\ U[u].tenant_id = t
                            /\ U[u].username = sUser
                            /\ U[u].role = "user"

\* C34: in every committed state in which the default tenant exists, its
\* super_admin, admin and user accounts exist too.
C34_DefaultTenantHasItsAccounts ==
    \A t \in TenantIds :
        tenants[t].name = DefaultTenant.name => HasDefaultAccounts(tenants, users, t)

\* the second half of C34: an ensure_default_tenant call that writes nothing
\* on a store with the default tenant finds the three accounts there
C34_RerunCompletesSeeding ==
    [][(/\ ret'.op = "ensure_default_tenant"
        /\ ret'.result.kind = "false"
        /\ \E t \in TenantIds : tenants[t].name = DefaultTenant.name) =>
          \A t \in TenantIds :
              tenants[t].name = DefaultTenant.name =>
                 HasDefaultAccounts(tenants', users', t)]_vars

\* the parseable records that have not expired
UnexpiredRecords ==
    {i \in DOMAIN sessions :
        sessions[i].kind = "record" /\ ~(now > sessions[i].expires_at)}

\* the most recently created of them
MostRecent ==
    {i \in UnexpiredRecords :
        \A j \in UnexpiredRecords : sessions[j].created_at <= sessions[i].created_at}

\* user u is active in an active tenant
ActiveInActiveTenant(u) ==
    /\ u \in UserIds
    /\ users[u].is_active
    /\ tenants[users[u].tenant_id].status = "active"

\* C35: _restore_user_session returns a user id only from a most recently
\* created unexpired record whose user is active in an active tenant, and
\* then deletes nothing; when it returns none although unexpired records
\* exist and every file could be read, the record it chose, a most recent one
\* whose user failed that check, is gone and the others are as they were.
C35_RestoreOnlyValidUser ==
    [][ret'.op = "restore_user_session" =>
         /\ ret'.result.kind = "user_id" =>
               /\ ret'.result.session_id \in MostRecent
               /\ sessions[ret'.result.session_id].user_id = ret'.result.user_id
               /\ ActiveInActiveTenant(ret'.result.user_id)
               /\ sessions' = sessions
         /\ ( /\ ret'.result = NoUser
              /\ UnexpiredRecords # {}
              /\ \A i \in DOMAIN sessions : sessions[i].kind # "non_object" ) =>
               \E i \in MostRecent :
                  /\ ~ActiveInActiveTenant(sessions[i].user_id)
                  /\ sessions' = Without(sessions, {i})]_vars

\* the newest session belonged to a user deactivated since: the restore
\* removed it and returned none, though an older session of a user in good
\* standing was still there
C35_Witness ==
    /\ ret.op = "restore_user_session"
    /\ ret.result = NoUser
    /\ Len(issued) = 2
    /\ issued[2].deleted
    /\ ~users[issued[2].user_id].is_active
    /\ 1 \in UnexpiredRecords
    /\ ActiveInActiveTenant(sessions[1].user_id)
    /\ issued[1].created_at < issued[2].created_at

\* C36: of the invitations sent to one email address in one tenant, at most
\* one is ever in the used state.
C36_OneUsedInvitationPerAddress ==
    \A i, j \in InvitationIds :
        ( /\ i # j
          /\ invitations[i].tenant_id = invitations[j].tenant_id
          /\ invitations[i].email = invitations[j].email ) =>
             ~(invitations[i].is_used /\ invitations[j].is_used)

\* two invitations went to one address; one was accepted, and a call on the
\* other one's token has returned none
C36_Witness ==
    /\ ret.op = "accept_invitation"
    /\ ret.result = NoUser
    /\ ret.token \in InvitationIds
    /\ ~invitations[ret.token].is_used
    /\ \E j \in InvitationIds \ {ret.token} :
          /\ invitations[j].is_used
          /\ invitations[j].email = invitations[ret.token].email
          /\ invitations[j].tenant_id = invitations[ret.token].tenant_id

SuperAdmins(rows) == {i \in 1..Len(rows) : rows[i].role = "super_admin"}

PageRoleOps ==
    {"add_user", "send_invitation", "accept_begin", "accept_check",
     "accept_invitation"}

\* C37: adding a user on the page, sending an invitation there and accepting
\* it never change which users are super_admin, whatever role the request
\* carries: every stored invitation has role admin or user, and the set of
\* super_admin users changes only in default-tenant seeding or update_user_role.
C37_PageNeverMakesSuperAdmin ==
    [][/\ ret'.op \in PageRoleOps => SuperAdmins(users') = SuperAdmins(users)
       /\ \A i \in 1..Len(invitations') : invitations'[i].role \in {"admin", "user"}
       /\ SuperAdmins(users') # SuperAdmins(users)
            => ret'.op \in {"ensure_default_tenant", "update_user_role"}]_vars

\* the add-user request that carried role super_admin was stored as a user
C37_Witness ==
    /\ ret.op = "add_user"
    /\ ret.result.kind = "added"
    /\ \E i \in UserIds :
          /\ users[i].username = sBOB
          /\ users[i].email = eAmy
          /\ users[i].role = "user"

\* C38: the shared configuration always passes validate.
C38_ConfigAlwaysValid == validate(config) = NoError

\* C38: an update_tenant_config call that raises ValueError leaves the
\* configuration exactly as it was before the call.
C38_FailedUpdateChangesNothing ==
    [][(ret'.op = "update_tenant_config" /\ ret'.result.kind = "raised")
          => config' = config]_vars

\* C39: the legacy admin flag of every TenantUser agrees with its role: the
\* flag is true exactly when the role is admin or super_admin.
C39_AdminFlagAgreesWithRole ==
    \A i \in UserIds : users[i].admin = (users[i].role \in {"admin", "super_admin"})

============================================================================
